---- MODULE Spec2Model ----
(***************************************************************************)
(* Extended Phase Graph operators and sequence engines of mrsim.           *)
(*                                                                         *)
(* Numbers are exact.  A real is a reduced fraction <<n, d>> with d > 0,   *)
(* a complex number a pair <<re, im>> of reals.  The transcendental        *)
(* functions are evaluated on the grids where their values are rational:  *)
(* exp on integer multiples of ln 2, sin and cos on integer multiples of  *)
(* pi/2 (cos^2 and sin^2 on multiples of pi/4), exp(i*phi) on multiples of *)
(* pi/2.  Rates are therefore counted in units of ln 2 per unit of time    *)
(* and angles in quarter turns of pi/2.                                    *)
(***************************************************************************)
EXTENDS Integers, Naturals, Sequences, FiniteSets, TLC

VARIABLES
    states,   \* the EPG states object: [Fplus, Fminus, Z], each a tensor
    inp,      \* operator harness: the states object handed to the last call
    call,     \* operator harness: the last call, its arguments and results
    pc,       \* engines: position in the engine's code
    args,     \* engines: the arguments the engine was called with
    ops,      \* engines: the operators prepared before the loops
    i,        \* engines: outer loop index (repetition / inversion block)
    p,        \* engines: inner loop index (shot)
    signal,   \* engines: the list of recorded samples
    phase     \* MPRAGE.sequence: [phi, dphi, prev] RF phase bookkeeping

vars == <<states, inp, call, pc, args, ops, i, p, signal, phase>>

---------------------------------------------------------------------------
(* Bounds of the model.                                                    *)
MaxStates == 2      \* largest nstates
MaxLocs == 2        \* largest nlocs
MaxRate == 2        \* largest relaxation rate, in ln 2 per unit of time
MaxTime == 2        \* largest time interval

---------------------------------------------------------------------------
(* Exact real arithmetic (torch's elementwise +, -, *, /).                 *)
Abs(n) == IF n < 0 THEN -n ELSE n

RECURSIVE GCD(_, _)
GCD(a, b) == IF b = 0 THEN a ELSE GCD(b, a % b)

Rat(n, d) ==
    LET g == GCD(Abs(n), Abs(d))
        s == IF d < 0 THEN -1 ELSE 1
    IN  <<(s * n) \div g, (s * d) \div g>>

R(n) == <<n, 1>>
RZero == R(0)
ROne == R(1)
RAdd(a, b) ==
    LET g == GCD(a[2], b[2])
    IN  Rat(a[1] * (b[2] \div g) + b[1] * (a[2] \div g), a[2] * (b[2] \div g))
RNeg(a) == <<-a[1], a[2]>>
RSub(a, b) == RAdd(a, RNeg(b))
RMul(a, b) == Rat(a[1] * b[1], a[2] * b[2])
RDiv(a, b) == Rat(a[1] * b[2], a[2] * b[1])
RLeq(a, b) == a[1] * b[2] <= b[1] * a[2]

(* Exact complex arithmetic.                                               *)
CR(r) == <<r, RZero>>
CZero == CR(RZero)
COne == CR(ROne)
CI == <<RZero, ROne>>
CAdd(a, b) == <<RAdd(a[1], b[1]), RAdd(a[2], b[2])>>
CNeg(a) == <<RNeg(a[1]), RNeg(a[2])>>
CMul(a, b) ==
    <<RSub(RMul(a[1], b[1]), RMul(a[2], b[2])),
      RAdd(RMul(a[1], b[2]), RMul(a[2], b[1]))>>
CConj(a) == <<a[1], RNeg(a[2])>>
CScale(r, a) == <<RMul(r, a[1]), RMul(r, a[2])>>

(* torch.exp at k * ln 2.                                                  *)
Exp(k) == IF k >= 0 THEN R(2 ^ k) ELSE Rat(1, 2 ^ (-k))

(* torch.sin, torch.cos at q * pi/2.                                       *)
Sin(q) == CASE q % 4 = 0 -> R(0) [] q % 4 = 1 -> R(1)
            [] q % 4 = 2 -> R(0) [] OTHER -> R(-1)
Cos(q) == CASE q % 4 = 0 -> R(1) [] q % 4 = 1 -> R(0)
            [] q % 4 = 2 -> R(-1) [] OTHER -> R(0)

(* torch.cos(fa / 2) ** 2 and torch.sin(fa / 2) ** 2 at fa = q * pi/2.     *)
CosHalfSq(q) == CASE q % 4 = 0 -> R(1) [] q % 4 = 2 -> R(0) [] OTHER -> Rat(1, 2)
SinHalfSq(q) == CASE q % 4 = 0 -> R(0) [] q % 4 = 2 -> R(1) [] OTHER -> Rat(1, 2)

(* torch.exp(1j * phi) at phi = q * pi/2.                                  *)
ExpI(q) == <<Cos(q), Sin(q)>>

---------------------------------------------------------------------------
(* Tensors of shape (nstates, nlocs, npools): order 0..nstates-1, then     *)
(* location 1..nlocs, then pool 1..npools.                                 *)
Full(ns, nl, np, v) == [s \in 0 .. ns - 1 |-> [l \in 1 .. nl |-> [q \in 1 .. np |-> v]]]
NStates(T) == Cardinality(DOMAIN T)
NLocs(T) == Len(T[0])
NPools(T) == Len(T[0][1])
Map(T, f(_, _, _, _)) ==
    [s \in DOMAIN T |-> [l \in DOMAIN T[s] |-> [q \in DOMAIN T[s][l] |-> f(s, l, q, T[s][l][q])]]]
AllEntries(T, v) == \A s \in DOMAIN T : \A l \in DOMAIN T[s] : \A q \in DOMAIN T[s][l] : T[s][l][q] = v

(* A mutant of states_matrix: Z filled with ones at every order.           *)
states_matrix_ones(nstates, nlocs, ntrans_pools, nlong_pools) ==
    [Fplus |-> Full(nstates, nlocs, ntrans_pools, CZero),
     Fminus |-> Full(nstates, nlocs, ntrans_pools, CZero),
     Z |-> Full(nstates, nlocs, nlong_pools, COne)]

states_matrix(nstates, nlocs, ntrans_pools, nlong_pools) ==
    LET Fplus == Full(nstates, nlocs, ntrans_pools, CZero)
        Fminus == Full(nstates, nlocs, ntrans_pools, CZero)
        Z == Full(nstates, nlocs, nlong_pools, CZero)
    IN  [Fplus |-> Fplus, Fminus |-> Fminus,
         Z |-> [Z EXCEPT ![0] = [l \in 1 .. nlocs |-> [q \in 1 .. nlong_pools |-> COne]]]]

---------------------------------------------------------------------------
(* Longitudinal relaxation.                                                *)

(* A mutant of longitudinal_relaxation_op: the sign of the exponent lost. *)
longitudinal_relaxation_op_growth(R1, time) ==
    LET E1 == Exp(R1 * time)
        rE1 == RSub(ROne, E1)
    IN  <<E1, rE1>>

(* A mutant of longitudinal_relaxation_op: the time interval ignored.      *)
longitudinal_relaxation_op_unit_time(R1, time) ==
    LET E1 == Exp(-R1)
        rE1 == RSub(ROne, E1)
    IN  <<E1, rE1>>

longitudinal_relaxation_op(R1, time) ==
    LET E1 == Exp((-R1) * time)
        rE1 == RSub(ROne, E1)
    IN  <<E1, rE1>>

(* A mutant of longitudinal_relaxation: regrowth added at every order.     *)
longitudinal_relaxation_all_orders(st, E1, rE1) ==
    [st EXCEPT !.Z = Map(st.Z, LAMBDA s, l, q, z : CAdd(CScale(E1, z), CR(rE1)))]

longitudinal_relaxation(st, E1, rE1) ==
    LET Decay(z) == CScale(E1, z)                 \* Z = Z.clone() * E1
        Regrow(s, z) == IF s = 0 THEN CAdd(z, CR(rE1)) ELSE z   \* Z[0] = Z[0] + rE1
    IN  [st EXCEPT !.Z = Map(st.Z, LAMBDA s, l, q, z : Regrow(s, Decay(z)))]

(* Transverse relaxation.                                                  *)
transverse_relaxation_op(R2, time) == Exp((-R2) * time)

(* A mutant of transverse_relaxation: Z decays with Fplus and Fminus.       *)
transverse_relaxation_with_Z(st, E2) ==
    [st EXCEPT !.Fplus = Map(st.Fplus, LAMBDA s, l, q, f : CScale(E2, f)),
               !.Fminus = Map(st.Fminus, LAMBDA s, l, q, f : CScale(E2, f)),
               !.Z = Map(st.Z, LAMBDA s, l, q, z : CScale(E2, z))]

transverse_relaxation(st, E2) ==
    [st EXCEPT !.Fplus = Map(st.Fplus, LAMBDA s, l, q, f : CScale(E2, f)),
               !.Fminus = Map(st.Fminus, LAMBDA s, l, q, f : CScale(E2, f))]

---------------------------------------------------------------------------
(* RF pulses.  fa, slice_prof and B1 are vectors over the locations, a     *)
(* scalar being a vector of length 1 that broadcasts; their product counts *)
(* quarter turns, as phi does.  Each matrix entry is a vector like the     *)
(* product (the trailing [..., None] axis broadcasts over the pools).      *)
At(v, l) == IF Len(v) = 1 THEN v[1] ELSE v[l]
BMul(u, v) ==
    [l \in 1 .. (IF Len(u) >= Len(v) THEN Len(u) ELSE Len(v)) |-> At(u, l) * At(v, l)]
Each(v, f(_)) == [l \in DOMAIN v |-> f(v[l])]
Half == Rat(1, 2)

(* A mutant of rf_pulse_op: the longitudinal entry T22 built from sin.     *)
rf_pulse_op_sin(fa, slice_prof, B1) ==
    LET fa1 == BMul(B1, fa)                  \* fa = B1 * fa
        fa2 == BMul(slice_prof, fa1)         \* fa = slice_prof * fa
        T00 == Each(fa2, LAMBDA a : CR(CosHalfSq(a)))
        T01 == Each(fa2, LAMBDA a : CR(SinHalfSq(a)))
        T02 == Each(fa2, LAMBDA a : CR(Sin(a)))
        T10 == Each(T01, LAMBDA t : CConj(t))
        T11 == T00
        T12 == Each(fa2, LAMBDA a : CR(Sin(a)))
        T20 == Each(fa2, LAMBDA a : CMul(CScale(RNeg(Half), CI), CR(Sin(a))))
        T21 == Each(fa2, LAMBDA a : CMul(CScale(Half, CI), CR(Sin(a))))
        T22 == Each(fa2, LAMBDA a : CR(Sin(a)))
    IN  <<<<T00, T01, T02>>, <<T10, T11, T12>>, <<T20, T21, T22>>>>

rf_pulse_op(fa, slice_prof, B1) ==
    LET fa1 == BMul(B1, fa)                  \* fa = B1 * fa
        fa2 == BMul(slice_prof, fa1)         \* fa = slice_prof * fa
        T00 == Each(fa2, LAMBDA a : CR(CosHalfSq(a)))
        T01 == Each(fa2, LAMBDA a : CR(SinHalfSq(a)))
        T02 == Each(fa2, LAMBDA a : CR(Sin(a)))
        T10 == Each(T01, LAMBDA t : CConj(t))
        T11 == T00
        T12 == Each(fa2, LAMBDA a : CR(Sin(a)))
        T20 == Each(fa2, LAMBDA a : CMul(CScale(RNeg(Half), CI), CR(Sin(a))))
        T21 == Each(fa2, LAMBDA a : CMul(CScale(Half, CI), CR(Sin(a))))
        T22 == Each(fa2, LAMBDA a : CR(Cos(a)))
    IN  <<<<T00, T01, T02>>, <<T10, T11, T12>>, <<T20, T21, T22>>>>

(* A mutant of phased_rf_pulse_op: sin(fa / 2) ** 2 replaced by            *)
(* cos(fa / 2) ** 2 in T01.                                                *)
phased_rf_pulse_op_cos(fa, phi, slice_prof, B1) ==
    LET fa1 == BMul(B1, fa)                  \* fa = B1 * fa
        fa2 == BMul(slice_prof, fa1)         \* fa = slice_prof * fa
        T00 == Each(fa2, LAMBDA a : CR(CosHalfSq(a)))
        T01 == Each(fa2, LAMBDA a : CMul(ExpI(2 * phi), CR(CosHalfSq(a))))
        T02 == Each(fa2, LAMBDA a : CMul(CMul(CNeg(CI), ExpI(phi)), CR(Sin(a))))
        T10 == Each(T01, LAMBDA t : CConj(t))
        T11 == T00
        T12 == Each(fa2, LAMBDA a : CMul(CMul(CI, ExpI(-phi)), CR(Sin(a))))
        T20 == Each(fa2, LAMBDA a : CMul(CMul(CScale(RNeg(Half), CI), ExpI(-phi)), CR(Sin(a))))
        T21 == Each(fa2, LAMBDA a : CMul(CMul(CScale(Half, CI), ExpI(phi)), CR(Sin(a))))
        T22 == Each(fa2, LAMBDA a : CR(Cos(a)))
    IN  <<<<T00, T01, T02>>, <<T10, T11, T12>>, <<T20, T21, T22>>>>

phased_rf_pulse_op(fa, phi, slice_prof, B1) ==
    LET fa1 == BMul(B1, fa)                  \* fa = B1 * fa
        fa2 == BMul(slice_prof, fa1)         \* fa = slice_prof * fa
        T00 == Each(fa2, LAMBDA a : CR(CosHalfSq(a)))
        T01 == Each(fa2, LAMBDA a : CMul(ExpI(2 * phi), CR(SinHalfSq(a))))
        T02 == Each(fa2, LAMBDA a : CMul(CMul(CNeg(CI), ExpI(phi)), CR(Sin(a))))
        T10 == Each(T01, LAMBDA t : CConj(t))
        T11 == T00
        T12 == Each(fa2, LAMBDA a : CMul(CMul(CI, ExpI(-phi)), CR(Sin(a))))
        T20 == Each(fa2, LAMBDA a : CMul(CMul(CScale(RNeg(Half), CI), ExpI(-phi)), CR(Sin(a))))
        T21 == Each(fa2, LAMBDA a : CMul(CMul(CScale(Half, CI), ExpI(phi)), CR(Sin(a))))
        T22 == Each(fa2, LAMBDA a : CR(Cos(a)))
    IN  <<<<T00, T01, T02>>, <<T10, T11, T12>>, <<T20, T21, T22>>>>

(* Row `row` of RF applied to the three components at one index.           *)
Mix(RF, row, l, fp, fm, z) ==
    CAdd(CAdd(CMul(At(RF[row][1], l), fp), CMul(At(RF[row][2], l), fm)),
         CMul(At(RF[row][3], l), z))

rf_pulse(st, RF) ==
    LET FplusIn == st.Fplus
        FminusIn == st.Fminus
        ZIn == st.Z
        Out(row) == Map(FplusIn, LAMBDA s, l, q, f :
                        Mix(RF, row, l, FplusIn[s][l][q], FminusIn[s][l][q], ZIn[s][l][q]))
    IN  [st EXCEPT !.Fplus = Out(1), !.Fminus = Out(2), !.Z = Out(3)]

---------------------------------------------------------------------------
(* Operators the engines call whose modules are not part of the sources:   *)
(* inversion scales Z by -efficiency; spoiling zeroes Fplus and Fminus and *)
(* keeps Z; the shift moves Fplus up and Fminus down one order, Fplus[0]   *)
(* regenerating from conj(Fminus[0]) and the order past the window being   *)
(* lost; the observation reads Fplus at order 0 and changes nothing.       *)
adiabatic_inversion(st, inv_efficiency) ==
    [st EXCEPT !.Z = Map(st.Z, LAMBDA s, l, q, z : CScale(RNeg(inv_efficiency), z))]

spoil(st) ==
    [st EXCEPT !.Fplus = Map(st.Fplus, LAMBDA s, l, q, f : CZero),
               !.Fminus = Map(st.Fminus, LAMBDA s, l, q, f : CZero)]

shift(st) ==
    LET last == NStates(st.Fplus) - 1
        Fminus == Map(st.Fminus, LAMBDA s, l, q, f :
                      IF s = last THEN CZero ELSE st.Fminus[s + 1][l][q])
        Fplus == Map(st.Fplus, LAMBDA s, l, q, f :
                     IF s = 0 THEN CConj(Fminus[0][l][q]) ELSE st.Fplus[s - 1][l][q])
    IN  [st EXCEPT !.Fplus = Fplus, !.Fminus = Fminus]

get_signal(st) == st.Fplus[0]

---------------------------------------------------------------------------
(* Two-pool longitudinal relaxation with exchange.  k[a][b] is the rate    *)
(* from pool a to pool b; the generator is G = -diag(R1) - K, K holding    *)
(* each pool's outflow on the diagonal and the inflow (negated) off it.    *)
(* E1 = exp(G * time) in closed form from the eigenvalues of G, the        *)
(* recovery vector the weights transformed by (I - E1).                    *)
Generator(k, R1) ==
    <<<<(-R1[1]) - k[1][2], k[2][1]>>,
      <<k[1][2], (-R1[2]) - k[2][1]>>>>

Disc(G) == (G[1][1] - G[2][2]) * (G[1][1] - G[2][2]) + 4 * G[1][2] * G[2][1]
IsSquare(n) == \E r \in 0 .. n : r * r = n
ISqrt(n) == CHOOSE r \in 0 .. n : r * r = n

(* The inputs on which both eigenvalues are integers.                      *)
ExchangeExact(k, R1) ==
    LET G == Generator(k, R1)
    IN  /\ IsSquare(Disc(G))
        /\ (G[1][1] + G[2][2] + ISqrt(Disc(G))) % 2 = 0

longitudinal_relaxation_exchange_op(weight, k, R1, time) ==
    LET G == Generator(k, R1)
        sq == ISqrt(Disc(G))
        tr == G[1][1] + G[2][2]
        l1 == (tr + sq) \div 2
        l2 == (tr - sq) \div 2
        e1 == Exp(l1 * time)
        e2 == Exp(l2 * time)
        Id(a, b) == IF a = b THEN 1 ELSE 0
        Entry(a, b) ==
            IF l1 = l2
            THEN RMul(e1, R(Id(a, b) + time * (G[a][b] - l1 * Id(a, b))))
            ELSE RDiv(RSub(RMul(e1, R(G[a][b] - l2 * Id(a, b))),
                           RMul(e2, R(G[a][b] - l1 * Id(a, b)))),
                      R(l1 - l2))
        E1 == [a \in 1 .. 2 |-> [b \in 1 .. 2 |-> Entry(a, b)]]
        rE1 == [a \in 1 .. 2 |->
                   RSub(weight[a], RAdd(RMul(E1[a][1], weight[1]), RMul(E1[a][2], weight[2])))]
    IN  <<E1, rE1>>

---------------------------------------------------------------------------
(* The operators called one at a time on enumerated inputs.                *)

(* What the engines' variables hold while the operators are exercised.     *)
Idle == /\ pc = "idle" /\ args = <<>> /\ i = 0 /\ p = 0
        /\ signal = <<>> /\ phase = <<>>
IdleUnchanged == UNCHANGED <<pc, args, i, p, signal, phase>>

NoCall == [op |-> "none"]
NoOp == [kind |-> "none"]

(* Input states: per order one (Fplus, Fminus, Z) triple, scaled by        *)
(* location / pool so that no two entries of a tensor agree by accident.   *)
InputTriples ==
    { <<COne, CI, <<Rat(-1, 2), RZero>>>>,
      <<<<Rat(1, 2), ROne>>, CNeg(COne), CI>> }

InputState(ns, nl, np, t) ==
    LET T(c) == [s \in 0 .. ns - 1 |-> [l \in 1 .. nl |-> [q \in 1 .. np |->
                    CScale(Rat(l, q), t[s][c])]]]
    IN  [Fplus |-> T(1), Fminus |-> T(2), Z |-> T(3)]

FlipAngles == 0 .. 3
Phases == 0 .. 3
B1Values == {1, 2}
SliceProfValues == {1, 2}
SliceProfs(nl) == [1 .. 1 -> SliceProfValues] \cup {[l \in 1 .. nl |-> l]}
PoolCounts == {1, 2}
RelaxPairs == { <<Rat(4, 5), Rat(1, 5)>>, <<Rat(1, 2), ROne>>, <<ROne, RZero>>, <<RZero, ROne>> }
Weights == { <<Rat(1, 2), Rat(1, 2)>>, <<Rat(1, 4), Rat(3, 4)>>, <<ROne, RZero>> }
ExchangeRates == { <<<<0, 0>>, <<0, 0>>>>, <<<<0, 1>>, <<1, 0>>>>, <<<<0, 2>>, <<0, 0>>>> }

(* Nothing has been called yet: the caller builds its input.               *)
Start == call = NoCall /\ ops = NoOp

SameShape(st) ==
    /\ NPools(st.Fplus) = NPools(st.Z)
    /\ NPools(st.Fminus) = NPools(st.Z)

Create(ns, nl, ntp, nlp) ==
    /\ Start
    /\ states' = states_matrix(ns, nl, ntp, nlp)
    /\ inp' = states'
    /\ call' = [op |-> "states_matrix", nstates |-> ns, nlocs |-> nl,
                ntrans_pools |-> ntp, nlong_pools |-> nlp]
    /\ ops' = NoOp
    /\ IdleUnchanged

Load(ns, nl, np, t) ==
    /\ Start
    /\ states' = InputState(ns, nl, np, t)
    /\ inp' = states'
    /\ call' = [op |-> "input"]
    /\ ops' = NoOp
    /\ IdleUnchanged

Fresh == call.op \in {"none", "states_matrix", "input"}

RelaxOp(R1, time) ==
    /\ Fresh
    /\ ops = NoOp
    /\ LET r == longitudinal_relaxation_op(R1, time)
       IN  ops' = [kind |-> "longitudinal_relaxation_op", R1 |-> R1, time |-> time,
                   E1 |-> r[1], rE1 |-> r[2]]
    /\ UNCHANGED <<states, inp, call>>
    /\ IdleUnchanged

ExchangeOp(weight, k, R1, time) ==
    /\ Start
    /\ ExchangeExact(k, R1)
    /\ LET r == longitudinal_relaxation_exchange_op(weight, k, R1, time)
       IN  ops' = [kind |-> "longitudinal_relaxation_exchange_op", weight |-> weight,
                   k |-> k, R1 |-> R1, time |-> time, E1 |-> r[1], rE1 |-> r[2]]
    /\ UNCHANGED <<states, inp, call>>
    /\ IdleUnchanged

LongRelax(E1, rE1) ==
    /\ Fresh
    /\ states' = longitudinal_relaxation(states, E1, rE1)
    /\ inp' = states
    /\ call' = [op |-> "longitudinal_relaxation", E1 |-> E1, rE1 |-> rE1]
    /\ UNCHANGED ops
    /\ IdleUnchanged

LongRelaxPrepared ==
    /\ ops.kind = "longitudinal_relaxation_op"
    /\ LongRelax(ops.E1, ops.rE1)

(* A second interval: longitudinal_relaxation called on the state the      *)
(* first call returned; inp keeps the state before the first call.         *)
LongRelaxAgain(E1, rE1) ==
    /\ call.op = "longitudinal_relaxation"
    /\ states' = longitudinal_relaxation(states, E1, rE1)
    /\ call' = [op |-> "longitudinal_relaxation twice", Ea |-> call.E1, rEa |-> call.rE1,
                Eb |-> E1, rEb |-> rE1]
    /\ UNCHANGED <<inp, ops>>
    /\ IdleUnchanged

TransRelax(E2) ==
    /\ Fresh
    /\ ops = NoOp
    /\ states' = transverse_relaxation(states, E2)
    /\ inp' = states
    /\ call' = [op |-> "transverse_relaxation", E2 |-> E2]
    /\ UNCHANGED ops
    /\ IdleUnchanged

RfPulse(fa, slice_prof, B1) ==
    /\ Fresh
    /\ ops = NoOp
    /\ SameShape(states)
    /\ Len(slice_prof) \in {1, NLocs(states.Z)}
    /\ \E RF \in {rf_pulse_op(<<fa>>, slice_prof, <<B1>>)} :
           /\ states' = rf_pulse(states, RF)
           /\ call' = [op |-> "rf_pulse", builder |-> "rf_pulse_op", fa |-> fa, phi |-> 0,
                       slice_prof |-> slice_prof, B1 |-> B1, RF |-> RF]
    /\ inp' = states
    /\ UNCHANGED ops
    /\ IdleUnchanged

PhasedRfPulse(fa, phi, slice_prof, B1) ==
    /\ Fresh
    /\ ops = NoOp
    /\ SameShape(states)
    /\ Len(slice_prof) \in {1, NLocs(states.Z)}
    /\ \E RF \in {phased_rf_pulse_op(<<fa>>, phi, slice_prof, <<B1>>)} :
           /\ states' = rf_pulse(states, RF)
           /\ call' = [op |-> "rf_pulse", builder |-> "phased_rf_pulse_op", fa |-> fa,
                       phi |-> phi, slice_prof |-> slice_prof, B1 |-> B1, RF |-> RF]
    /\ inp' = states
    /\ UNCHANGED ops
    /\ IdleUnchanged

(* A second pulse: rf_pulse called with the same matrix on the state the   *)
(* first call returned; inp keeps the state before the first call.         *)
RfPulseAgain ==
    /\ call.op = "rf_pulse"
    /\ states' = rf_pulse(states, call.RF)
    /\ call' = [call EXCEPT !.op = "rf_pulse twice"]
    /\ UNCHANGED <<inp, ops>>
    /\ IdleUnchanged

Init ==
    /\ states = states_matrix(1, 1, 1, 1)
    /\ inp = states
    /\ call = NoCall
    /\ ops = NoOp
    /\ Idle

(* The guards shared by every choice of arguments come first.              *)
Next ==
    \/ /\ Start
       /\ \E ns \in 1 .. MaxStates, nl \in 1 .. MaxLocs, ntp \in PoolCounts, nlp \in PoolCounts :
             Create(ns, nl, ntp, nlp)
    \/ /\ Start
       /\ \E ns \in 1 .. MaxStates, nl \in 1 .. MaxLocs, np \in PoolCounts :
             \E t \in [0 .. ns - 1 -> InputTriples] : Load(ns, nl, np, t)
    \/ /\ Fresh /\ ops = NoOp
       /\ \E R1 \in 0 .. MaxRate, time \in 0 .. MaxTime : RelaxOp(R1, time)
    \/ /\ Start
       /\ \E w \in Weights, k \in ExchangeRates, R1 \in [1 .. 2 -> 0 .. MaxRate], time \in 0 .. MaxTime :
             ExchangeOp(w, k, R1, time)
    \/ /\ Fresh /\ ops = NoOp
       /\ \E pair \in RelaxPairs : LongRelax(pair[1], pair[2])
    \/ LongRelaxPrepared
    \/ /\ Fresh /\ ops = NoOp
       /\ \E pair \in RelaxPairs : TransRelax(pair[1])
    \/ /\ Fresh /\ ops = NoOp
       /\ \E fa \in FlipAngles, sp \in SliceProfs(NLocs(states.Z)), B1 \in B1Values :
             RfPulse(fa, sp, B1)
    \/ /\ Fresh /\ ops = NoOp
       /\ \E fa \in FlipAngles, phi \in Phases, sp \in SliceProfs(NLocs(states.Z)), B1 \in B1Values :
             PhasedRfPulse(fa, phi, sp, B1)
    \/ /\ call.op = "longitudinal_relaxation"
       /\ \E pair \in RelaxPairs : LongRelaxAgain(pair[1], pair[2])
    \/ RfPulseAgain

Spec == Init /\ [][Next]_vars

---------------------------------------------------------------------------
(* MRFModel._engine, one action per statement of its loops.                *)
MaxShots == 2       \* longest flip-angle train
MaxReps == 2        \* largest nreps / num_inversions

(* 1 / T on the inputs whose rate is a whole number of ln 2 per unit time. *)
Rate(T) == RDiv(ROne, T)[1]

HarnessIdle == inp = <<>> /\ call = NoCall /\ phase = <<>>
HarnessUnchanged == UNCHANGED <<inp, call, phase>>

NoStates == [Fplus |-> <<>>, Fminus |-> <<>>, Z |-> <<>>]

AlphaTrains == UNION { { [n \in 1 .. len |-> 1], [n \in 1 .. len |-> n] } : len \in 1 .. MaxShots }
Efficiencies == { ROne, Rat(1, 2) }

MRFArgs ==
    [T1 : { ROne, Rat(1, 2) }, T2 : { ROne }, alpha : AlphaTrains, TR : {1}, TI : {0, 1},
     M0 : { ROne }, B1 : {1}, inv_efficiency : Efficiencies,
     slice_prof : { <<1>>, <<1, 2>> }, nstates : 1 .. MaxStates, nreps : 1 .. MaxReps]

MRFInit ==
    /\ pc = "mrf_setup"
    /\ args \in MRFArgs
    /\ states = NoStates
    /\ ops = NoOp
    /\ i = 0 /\ p = 0
    /\ signal = <<>>
    /\ HarnessIdle

MRFSetup ==
    /\ pc = "mrf_setup"
    /\ LET R1 == Rate(args.T1)
           R2 == Rate(args.T2)
           inv == longitudinal_relaxation_op(R1, args.TI)
           seq == longitudinal_relaxation_op(R1, args.TR)
       IN  ops' = [kind |-> "mrf", E1inv |-> inv[1], rE1inv |-> inv[2],
                   E1 |-> seq[1], rE1 |-> seq[2],
                   E2 |-> transverse_relaxation_op(R2, args.TR),
                   nshots |-> Len(args.alpha)]
    /\ states' = states_matrix(args.nstates, Len(args.slice_prof), 1, 1)
    /\ i' = 0
    /\ pc' = IF args.nreps > 0 THEN "mrf_invert" ELSE "mrf_return"
    /\ UNCHANGED <<args, p, signal>>
    /\ HarnessUnchanged

MRFInvert ==
    /\ pc = "mrf_invert"
    /\ signal' = <<>>
    /\ states' = adiabatic_inversion(states, args.inv_efficiency)
    /\ pc' = "mrf_prep_relax"
    /\ UNCHANGED <<args, ops, i, p>>
    /\ HarnessUnchanged

MRFPrepRelax ==
    /\ pc = "mrf_prep_relax"
    /\ states' = longitudinal_relaxation(states, ops.E1inv, ops.rE1inv)
    /\ pc' = "mrf_prep_spoil"
    /\ UNCHANGED <<args, ops, i, p, signal>>
    /\ HarnessUnchanged

(* The end of a repetition: the next one, or the return.                   *)
MRFAfterShots == IF i + 1 < args.nreps THEN "mrf_invert" ELSE "mrf_return"

MRFPrepSpoil ==
    /\ pc = "mrf_prep_spoil"
    /\ states' = spoil(states)
    /\ p' = 0
    /\ pc' = IF ops.nshots > 0 THEN "mrf_rf" ELSE MRFAfterShots
    /\ i' = IF ops.nshots > 0 THEN i ELSE i + 1
    /\ UNCHANGED <<args, ops, signal>>
    /\ HarnessUnchanged

MRFPulse ==
    /\ pc = "mrf_rf"
    /\ \E RF \in {rf_pulse_op(<<args.B1>>, <<args.alpha[p + 1]>>, args.slice_prof)} :
          states' = rf_pulse(states, RF)
    /\ pc' = "mrf_record"
    /\ UNCHANGED <<args, ops, i, p, signal>>
    /\ HarnessUnchanged

MRFRecord ==
    /\ pc = "mrf_record"
    /\ signal' = Append(signal, get_signal(states))
    /\ pc' = "mrf_relax"
    /\ UNCHANGED <<states, args, ops, i, p>>
    /\ HarnessUnchanged

MRFRelax ==
    /\ pc = "mrf_relax"
    /\ states' = longitudinal_relaxation(states, ops.E1, ops.rE1)
    /\ pc' = "mrf_trelax"
    /\ UNCHANGED <<args, ops, i, p, signal>>
    /\ HarnessUnchanged

MRFTransverseRelax ==
    /\ pc = "mrf_trelax"
    /\ states' = transverse_relaxation(states, ops.E2)
    /\ pc' = "mrf_shift"
    /\ UNCHANGED <<args, ops, i, p, signal>>
    /\ HarnessUnchanged

MRFShift ==
    /\ pc = "mrf_shift"
    /\ states' = shift(states)
    /\ IF p + 1 < ops.nshots
       THEN p' = p + 1 /\ i' = i /\ pc' = "mrf_rf"
       ELSE p' = p + 1 /\ i' = i + 1 /\ pc' = MRFAfterShots
    /\ UNCHANGED <<args, ops, signal>>
    /\ HarnessUnchanged

MRFReturn ==
    /\ pc = "mrf_return"
    /\ pc' = "mrf_done"
    /\ UNCHANGED <<states, args, ops, i, p, signal>>
    /\ HarnessUnchanged

MRFNext ==
    \/ MRFSetup \/ MRFInvert \/ MRFPrepRelax \/ MRFPrepSpoil \/ MRFPulse
    \/ MRFRecord \/ MRFRelax \/ MRFTransverseRelax \/ MRFShift \/ MRFReturn

SpecMRF == MRFInit /\ [][MRFNext]_vars

---------------------------------------------------------------------------
(* MPRAGEModel._engine (torchsim), one action per statement of its loops.  *)
Kilo == 1000
(* An optional argument: None, or the value in a 1-tuple.                  *)
None == <<>>
Some(x) == <<x>>

MPRAGEArgs ==
    [T1 : {1000, 500}, TI : {0, 2}, flip : {1}, TRspgr : {1, 2}, TRmprage : {None, Some(3)},
     nshots : (0 .. MaxShots) \X {0, MaxShots}, M0 : { ROne },
     inv_efficiency : Efficiencies, num_inversions : 1 .. MaxReps]

MPInit ==
    /\ pc = "mp_setup"
    /\ args \in MPRAGEArgs
    /\ states = NoStates
    /\ ops = NoOp
    /\ i = 0 /\ p = 0
    /\ signal = <<>>
    /\ HarnessIdle

MPSetup ==
    /\ pc = "mp_setup"
    /\ LET R1 == Kilo \div args.T1
           nshots_bef == args.nshots[1]
           time_bef == nshots_bef * args.TRspgr
           inv == longitudinal_relaxation_op(R1, args.TI - time_bef)
           seq == longitudinal_relaxation_op(R1, args.TRspgr)
           blk == IF args.TRmprage # None
                  THEN longitudinal_relaxation_op(R1, args.TRmprage[1])
                  ELSE <<None, None>>
       IN  ops' = [kind |-> "mprage", nshots_bef |-> nshots_bef,
                   RF |-> rf_pulse_op(<<args.flip>>, <<1>>, <<1>>),
                   E1inv |-> inv[1], rE1inv |-> inv[2],
                   E1 |-> seq[1], rE1 |-> seq[2],
                   mprageE1 |-> blk[1], mpragerE1 |-> blk[2]]
    /\ states' = states_matrix(1, 1, 1, 1)
    /\ signal' = <<>>
    /\ i' = 0
    /\ pc' = IF args.num_inversions > 0 THEN "mp_invert" ELSE "mp_return"
    /\ UNCHANGED <<args, p>>
    /\ HarnessUnchanged

MPInvert ==
    /\ pc = "mp_invert"
    /\ states' = adiabatic_inversion(states, args.inv_efficiency)
    /\ pc' = "mp_prep_relax"
    /\ UNCHANGED <<args, ops, i, p, signal>>
    /\ HarnessUnchanged

MPPrepRelax ==
    /\ pc = "mp_prep_relax"
    /\ states' = longitudinal_relaxation(states, ops.E1inv, ops.rE1inv)
    /\ pc' = "mp_prep_spoil"
    /\ UNCHANGED <<args, ops, i, p, signal>>
    /\ HarnessUnchanged

(* The end of the shots of an inversion block.                             *)
MPAfterShots == IF args.TRmprage # None THEN "mp_block_relax" ELSE "mp_next"

MPPrepSpoil ==
    /\ pc = "mp_prep_spoil"
    /\ states' = spoil(states)
    /\ p' = 0
    /\ pc' = IF ops.nshots_bef * 2 > 0 THEN "mp_rf" ELSE MPAfterShots
    /\ UNCHANGED <<args, ops, i, signal>>
    /\ HarnessUnchanged

MPPulse ==
    /\ pc = "mp_rf"
    /\ states' = rf_pulse(states, ops.RF)
    /\ pc' = "mp_relax"
    /\ UNCHANGED <<args, ops, i, p, signal>>
    /\ HarnessUnchanged

MPRelax ==
    /\ pc = "mp_relax"
    /\ states' = longitudinal_relaxation(states, ops.E1, ops.rE1)
    /\ pc' = "mp_record"
    /\ UNCHANGED <<args, ops, i, p, signal>>
    /\ HarnessUnchanged

MPRecord ==
    /\ pc = "mp_record"
    /\ signal' = Append(signal, Each(get_signal(states), LAMBDA row :
                                     Each(row, LAMBDA f : CMul(CScale(args.M0, CI), f))))
    /\ pc' = "mp_spoil"
    /\ UNCHANGED <<states, args, ops, i, p>>
    /\ HarnessUnchanged

MPSpoil ==
    /\ pc = "mp_spoil"
    /\ states' = spoil(states)
    /\ p' = p + 1
    /\ pc' = IF p + 1 < ops.nshots_bef * 2 THEN "mp_rf" ELSE MPAfterShots
    /\ UNCHANGED <<args, ops, i, signal>>
    /\ HarnessUnchanged

(* The result is dropped, but longitudinal_relaxation assigns states.Z.    *)
MPBlockRelax ==
    /\ pc = "mp_block_relax"
    /\ states' = longitudinal_relaxation(states, ops.mprageE1, ops.mpragerE1)
    /\ pc' = "mp_next"
    /\ UNCHANGED <<args, ops, i, p, signal>>
    /\ HarnessUnchanged

MPNextBlock ==
    /\ pc = "mp_next"
    /\ i' = i + 1
    /\ pc' = IF i + 1 < args.num_inversions THEN "mp_invert" ELSE "mp_return"
    /\ UNCHANGED <<states, args, ops, p, signal>>
    /\ HarnessUnchanged

(* torch.stack raises on an empty list.                                    *)
MPReturn ==
    /\ pc = "mp_return"
    /\ pc' = IF signal = <<>> THEN "mp_error" ELSE "mp_done"
    /\ UNCHANGED <<states, args, ops, i, p, signal>>
    /\ HarnessUnchanged

MPNext ==
    \/ MPSetup \/ MPInvert \/ MPPrepRelax \/ MPPrepSpoil \/ MPPulse \/ MPRelax
    \/ MPRecord \/ MPSpoil \/ MPBlockRelax \/ MPNextBlock \/ MPReturn

SpecMPRAGE == MPInit /\ [][MPNext]_vars

---------------------------------------------------------------------------
(* MPRAGE.sequence (mrsim._epg), one action per statement.  The blocks it  *)
(* applies (InversionPrep, ExcPulse, SSFPFidStep, observe) are built from  *)
(* modules outside the sources, so `states` is the list of the blocks      *)
(* applied so far, each with the arguments it was called with, and a       *)
(* sample is the pulse it was observed after with the phase handed to      *)
(* observe.  Phases are whole degrees.                                     *)
MaxPulses == 3      \* largest props["nshots"]
FullTurn == 360

SpoilIncrements == {0, 50, 117, 120, -117}
SeqArgs == [flip : {1}, nshots : 0 .. MaxPulses, spoil_inc : SpoilIncrements]
Unset == <<>>

SeqInit ==
    /\ pc = "seq_prep"
    /\ args \in SeqArgs
    /\ states = <<>>
    /\ signal = [n \in 1 .. args.nshots |-> Unset]
    /\ phase = [phi |-> 0, dphi |-> 0]
    /\ ops = NoOp
    /\ i = 0 /\ p = 0
    /\ inp = <<>> /\ call = NoCall

SeqLoop(n) == IF n < args.nshots THEN "seq_phase" ELSE "seq_return"

SeqPrep ==
    /\ pc = "seq_prep"
    /\ states' = Append(states, [block |-> "Prep"])
    /\ p' = 0
    /\ pc' = SeqLoop(0)
    /\ UNCHANGED <<inp, call, args, ops, i, signal, phase>>

(* A mutant of SeqPhase: phi accumulated without the wrap to a full turn.   *)
SeqPhase_unwrapped ==
    /\ pc = "seq_phase"
    /\ LET dphi == (phase.phi + args.spoil_inc) % FullTurn
           phi == phase.phi + dphi
       IN  phase' = [phi |-> phi, dphi |-> dphi]
    /\ pc' = "seq_rf"
    /\ UNCHANGED <<states, inp, call, args, ops, i, p, signal>>

SeqPhase ==
    /\ pc = "seq_phase"
    /\ LET dphi == (phase.phi + args.spoil_inc) % FullTurn
           phi == (phase.phi + dphi) % FullTurn
       IN  phase' = [phi |-> phi, dphi |-> dphi]
    /\ pc' = "seq_rf"
    /\ UNCHANGED <<states, inp, call, args, ops, i, p, signal>>

SeqPulse ==
    /\ pc = "seq_rf"
    /\ states' = Append(states, [block |-> "RF", n |-> p, flip |-> args.flip, phi |-> phase.phi])
    /\ ops' = [kind |-> "RF", phi |-> phase.phi]
    /\ pc' = "seq_relax"
    /\ UNCHANGED <<inp, call, args, i, p, signal, phase>>

SeqRelax ==
    /\ pc = "seq_relax"
    /\ states' = Append(states, [block |-> "X", n |-> p])
    /\ pc' = "seq_observe"
    /\ UNCHANGED <<inp, call, args, ops, i, p, signal, phase>>

SeqObserve ==
    /\ pc = "seq_observe"
    /\ signal' = [signal EXCEPT ![p + 1] = <<[after |-> Len(states), phi |-> ops.phi]>>]
    /\ pc' = "seq_spoil"
    /\ UNCHANGED <<states, inp, call, args, ops, i, p, phase>>

SeqSpoil ==
    /\ pc = "seq_spoil"
    /\ states' = Append(states, [block |-> "XS", n |-> p])
    /\ p' = p + 1
    /\ pc' = SeqLoop(p + 1)
    /\ UNCHANGED <<inp, call, args, ops, i, signal, phase>>

SeqReturn ==
    /\ pc = "seq_return"
    /\ pc' = "seq_done"
    /\ UNCHANGED <<states, inp, call, args, ops, i, p, signal, phase>>

SeqNext ==
    \/ SeqPrep \/ SeqPhase \/ SeqPulse \/ SeqRelax \/ SeqObserve \/ SeqSpoil \/ SeqReturn

SpecSeq == SeqInit /\ [][SeqNext]_vars

---------------------------------------------------------------------------
(* The differentiation adapter (base/decorators/_jacfwd.py).  A value is a  *)
(* tensor or a Python tuple: dtype "real" (leaves are numbers), "complex"   *)
(* (leaves are <<re, im>>) or "tuple" (data holds the members); rank counts *)
(* the axes of a tensor.                                                    *)
MaxSamples == 2     \* longest engine output

Tensor(dtype, rank, data) == [dtype |-> dtype, rank |-> rank, data |-> data]
Tuple(items) == [dtype |-> "tuple", rank |-> 0, data |-> items]

Leaves(rank, data, f(_)) ==
    IF rank = 0 THEN f(data)
    ELSE IF rank = 1 THEN [k \in DOMAIN data |-> f(data[k])]
    ELSE [r \in DOMAIN data |-> [k \in DOMAIN data[r] |-> f(data[r][k])]]

LeafSet(rank, data) ==
    IF rank = 0 THEN {data}
    ELSE IF rank = 1 THEN {data[k] : k \in DOMAIN data}
    ELSE UNION {{data[r][k] : k \in DOMAIN data[r]} : r \in DOMAIN data}

is_complex(tensor) == tensor.dtype = "complex"
real(tensor) ==
    IF is_complex(tensor)
    THEN Tensor("real", tensor.rank, Leaves(tensor.rank, tensor.data, LAMBDA z : z[1]))
    ELSE tensor
imag(tensor) == Tensor("real", tensor.rank, Leaves(tensor.rank, tensor.data, LAMBDA z : z[2]))
zeros_like(tensor) == Tensor(tensor.dtype, tensor.rank, Leaves(tensor.rank, tensor.data, LAMBDA z : 0))
stack(a, b) == Tensor(a.dtype, a.rank + 1, <<a.data, b.data>>)

(* x[k] of Python, k counted from 0: a member of a tuple, or the k-th       *)
(* slice of a tensor along its leading axis.                                *)
len(x) == Len(x.data)
getitem(x, k) ==
    IF x.dtype = "tuple" THEN x.data[k + 1] ELSE Tensor(x.dtype, x.rank - 1, x.data[k + 1])

(* torch.complex(a, b): elementwise a + i b of two real tensors of one shape. *)
complex(a, b) ==
    Tensor("complex", a.rank,
           IF a.rank = 0 THEN <<a.data, b.data>>
           ELSE IF a.rank = 1 THEN [k \in DOMAIN a.data |-> <<a.data[k], b.data[k]>>]
           ELSE [r \in DOMAIN a.data |->
                    [k \in DOMAIN a.data[r] |-> <<a.data[r][k], b.data[r][k]>>]])

(* torch.isreal(output).all() *)
isreal_all(output) ==
    ~is_complex(output) \/ \A z \in LeafSet(output.rank, output.data) : z[2] = 0

split_real_imag(tensor) ==
    IF is_complex(tensor)
    THEN stack(real(tensor), imag(tensor))
    ELSE stack(tensor, zeros_like(tensor))

(* A mutant of combine_real_imag: the result stays complex.                 *)
combine_real_imag_complex(split_tensor) ==
    complex(getitem(split_tensor, 0), getitem(split_tensor, 1))

combine_real_imag(split_tensor) ==
    LET output == complex(getitem(split_tensor, 0), getitem(split_tensor, 1))
    IN  IF isreal_all(output) THEN real(output) ELSE output

(* The engine the adapter decorates: its broadcastable parameters in        *)
(* signature order, and an output that is linear in them, sample s being    *)
(* s * sum_j coef[j] * x[j].                                                *)
ARGS == <<"T1", "T2", "M0">>

RECURSIVE Dot(_, _, _, _)
Dot(coef, part, x, n) ==
    IF n = 0 THEN 0 ELSE Dot(coef, part, x, n - 1) + coef[n][part] * x[n]

engine(e, x) ==
    Tensor(e.dtype, 1,
           [s \in 1 .. e.samples |->
               IF e.dtype = "complex"
               THEN <<s * Dot(e.coef, 1, x, Len(x)), s * Dot(e.coef, 2, x, Len(x))>>
               ELSE s * Dot(e.coef, 1, x, Len(x))])

(* diff and argnums as Python values: the names or indices in value, a      *)
(* lone str or int being a 1-sequence of type "str" or "int".               *)
Str(name) == [type |-> "str", value |-> <<name>>]
Names(names) == [type |-> "tuple", value |-> names]
Unsupported == [type |-> "dict", value |-> <<>>]
ValueError == [type |-> "ValueError", value |-> <<>>]

_get_argnums(diff, ARGS_) ==
    LET ARGMAP == [name \in {ARGS_[k] : k \in DOMAIN ARGS_} |->
                      (CHOOSE k \in DOMAIN ARGS_ : ARGS_[k] = name) - 1]
    IN  IF diff.type = "str" THEN [type |-> "int", value |-> <<ARGMAP[diff.value[1]]>>]
        ELSE IF diff.type = "tuple"
        THEN [type |-> "tuple", value |-> [d \in DOMAIN diff.value |-> ARGMAP[diff.value[d]]]]
        ELSE ValueError

(* torch.func.jacfwd(wrapped_fn, argnums) called on args: forward mode pushes a     *)
(* unit tangent through wrapped_fn for each chosen argument; on an engine   *)
(* linear in its arguments this is the difference below.  An int argnums    *)
(* gives one tensor, a tuple gives a tuple of tensors.                      *)
Tangent(x, argnum) == [k \in DOMAIN x |-> IF k = argnum + 1 THEN x[k] + 1 ELSE x[k]]
Minus(a, b) ==
    Tensor(a.dtype, a.rank,
           [r \in DOMAIN a.data |-> [k \in DOMAIN a.data[r] |-> a.data[r][k] - b.data[r][k]]])
Partial(e, x, argnum) ==
    Minus(split_real_imag(engine(e, Tangent(x, argnum))), split_real_imag(engine(e, x)))
func_jacfwd(e, argnums, x) ==
    IF argnums.type = "int" THEN Partial(e, x, argnums.value[1])
    ELSE Tuple([d \in DOMAIN argnums.value |-> Partial(e, x, argnums.value[d])])

(* jacfwd(argnums, recombine_output)(fn) called on x, one action per        *)
(* statement, and split_real_imag / combine_real_imag called on a tensor.   *)
EngineIdle == states = NoStates /\ inp = <<>> /\ call = NoCall /\ phase = <<>> /\ i = 0 /\ p = 0
EngineUnchanged == UNCHANGED <<states, inp, call, phase, i, p>>

Diffs ==
    { Str("T1"), Str("M0"), Names(<<"T2">>), Names(<<"T1", "T2">>), Names(<<"M0", "T1">>),
      Names(<<"T1", "T2", "M0">>), Unsupported }
Coefficients == { <<1, 0>>, <<0, 1>>, <<1, 2>> }
Engines ==
    [dtype : {"real", "complex"}, samples : 1 .. MaxSamples, coef : [DOMAIN ARGS -> Coefficients]]
JacArgs == [diff : Diffs, recombine_output : BOOLEAN, fn : Engines, x : { <<1, 2, 3>> }]

RealLeaves == {-1, 0, 2}
ComplexLeaves == { <<0, 0>>, <<1, 0>>, <<0, 1>>, <<-1, 2>> }
InputTensors ==
    UNION { { Tensor("real", 1, d) : d \in [1 .. n -> RealLeaves] } \cup
            { Tensor("complex", 1, d) : d \in [1 .. n -> ComplexLeaves] } : n \in 0 .. MaxSamples }

NoResult == <<>>

JacInit ==
    /\ \/ pc = "jac_argnums" /\ args \in JacArgs
       \/ pc = "rt_split" /\ args \in [x : InputTensors]
    /\ ops = NoOp
    /\ signal = NoResult
    /\ EngineIdle

JacGetArgnums ==
    /\ pc = "jac_argnums"
    /\ LET argnums == _get_argnums(args.diff, ARGS)
       IN  /\ ops' = [kind |-> "jacfwd", argnums |-> argnums, jacobian |-> NoResult]
           /\ pc' = IF argnums = ValueError THEN "jac_error" ELSE "jac_jacfwd"
    /\ UNCHANGED <<args, signal>>
    /\ EngineUnchanged

JacForward ==
    /\ pc = "jac_jacfwd"
    /\ ops' = [ops EXCEPT !.jacobian = func_jacfwd(args.fn, ops.argnums, args.x)]
    /\ pc' = IF args.recombine_output THEN "jac_combine" ELSE "jac_return"
    /\ UNCHANGED <<args, signal>>
    /\ EngineUnchanged

(* split_tensor[1] of a 1-tuple raises IndexError.                          *)
JacCombine ==
    /\ pc = "jac_combine"
    /\ IF len(ops.jacobian) < 2
       THEN pc' = "jac_error" /\ ops' = ops
       ELSE pc' = "jac_return" /\ ops' = [ops EXCEPT !.jacobian = combine_real_imag(ops.jacobian)]
    /\ UNCHANGED <<args, signal>>
    /\ EngineUnchanged

JacReturn ==
    /\ pc = "jac_return"
    /\ signal' = ops.jacobian
    /\ pc' = "jac_done"
    /\ UNCHANGED <<args, ops>>
    /\ EngineUnchanged

RoundTripSplit ==
    /\ pc = "rt_split"
    /\ ops' = [kind |-> "split", split |-> split_real_imag(args.x)]
    /\ pc' = "rt_combine"
    /\ UNCHANGED <<args, signal>>
    /\ EngineUnchanged

RoundTripCombine ==
    /\ pc = "rt_combine"
    /\ signal' = combine_real_imag(ops.split)
    /\ pc' = "rt_done"
    /\ UNCHANGED <<args, ops>>
    /\ EngineUnchanged

JacNext ==
    \/ JacGetArgnums \/ JacForward \/ JacCombine \/ JacReturn
    \/ RoundTripSplit \/ RoundTripCombine

SpecJac == JacInit /\ [][JacNext]_vars

---------------------------------------------------------------------------
(* AbstractModel (base/base.py): forward, jacobian and __call__ on a batch  *)
(* of parameter lanes, one action per statement of __call__.                *)
MaxBatch == 3       \* most lanes in a batch
MaxChunk == 3       \* largest chunk_size

PyNone == [type |-> "NoneType", value |-> <<>>]
(* The callable jacobian returns closes over argnums.                      *)
Callable(argnums) == [type |-> "callable", value |-> <<argnums>>]

(* torch.broadcast_tensors on 1-d tensors: a length-1 tensor expands.       *)
RECURSIVE MaxLength(_, _)
MaxLength(tensors, n) ==
    IF n = 0 THEN 1
    ELSE LET m == MaxLength(tensors, n - 1)
         IN  IF len(tensors[n]) > m THEN len(tensors[n]) ELSE m
broadcast_tensors(tensors) ==
    LET size == MaxLength(tensors, Len(tensors))
    IN  [n \in DOMAIN tensors |->
            Tensor(tensors[n].dtype, 1,
                   [l \in 1 .. size |->
                       IF len(tensors[n]) = 1 THEN tensors[n].data[1] ELSE tensors[n].data[l]])]

(* func of _get_func: the leading inputs are zipped with the names of the   *)
(* broadcastable parameters, the rest is ignored.                           *)
(* A mutant of Lane: the trailing inputs bound to the parameters.           *)
Lane_trailing(inputs, l) ==
    [k \in DOMAIN ARGS |-> inputs[Len(inputs) - Len(ARGS) + k].data[l]]
Lane(inputs, l) == [k \in DOMAIN ARGS |-> inputs[k].data[l]]

(* torch.vmap(f, chunk_size): the batch is cut into chunk_size lanes at a   *)
(* time and a shorter last chunk, f runs on each chunk, and the results     *)
(* are concatenated in chunk order.                                         *)
get_chunk_sizes_full(total, chunk_size) ==
    [c \in 1 .. (total \div chunk_size) |-> chunk_size]
get_chunk_sizes(total, chunk_size) ==
    [c \in 1 .. (total \div chunk_size) |-> chunk_size] \o
        (IF total % chunk_size # 0 THEN <<total % chunk_size>> ELSE <<>>)

RECURSIVE Accumulate(_, _)
Accumulate(sizes, n) == IF n = 0 THEN 0 ELSE Accumulate(sizes, n - 1) + sizes[n]

RECURSIVE Cat(_, _)
Cat(chunks, n) == IF n = 0 THEN <<>> ELSE Cat(chunks, n - 1) \o chunks[n]

vmap(f(_), chunk_size, inputs) ==
    LET sizes == get_chunk_sizes(len(inputs[1]), chunk_size)
        stop(c) == Accumulate(sizes, c)
        outputs == [c \in DOMAIN sizes |->
                       [l \in 1 .. sizes[c] |-> f(Lane(inputs, stop(c) - sizes[c] + l))]]
    IN  Cat(outputs, Len(outputs))

(* broadcast(vmapped)(inputs) of forward and of jacobian.                   *)
vmapped_engine(e, chunk_size, inputs) ==
    LET lanes == vmap(LAMBDA x : engine(e, x), chunk_size, broadcast_tensors(inputs))
    IN  Tensor(e.dtype, 2, [l \in DOMAIN lanes |-> lanes[l].data])

(* jacfwd(argnums)(engine) on one lane; IndexError as in combine_real_imag. *)
IndexError == [dtype |-> "IndexError", rank |-> 0, data |-> <<>>]
jac_engine(e, argnums, x) ==
    LET jac == func_jacfwd(e, argnums, x)
    IN  IF len(jac) < 2 THEN IndexError ELSE combine_real_imag(jac)
jacobian_engine(e, argnums, chunk_size, inputs) ==
    LET lanes == vmap(LAMBDA x : jac_engine(e, argnums, x), chunk_size, broadcast_tensors(inputs))
    IN  IF \E l \in DOMAIN lanes : lanes[l] = IndexError THEN IndexError
        ELSE Tensor(lanes[1].dtype, lanes[1].rank + 1, [l \in DOMAIN lanes |-> lanes[l].data])

(* AbstractModel.jacobian: None without diff, else the callable (or the     *)
(* ValueError of _get_argnums).  A mutant returns the callable regardless.  *)
jacobian_callable(diff) == Callable(PyNone)
jacobian(diff) ==
    IF diff = PyNone THEN PyNone
    ELSE IF _get_argnums(diff, ARGS) = ValueError THEN ValueError
    ELSE Callable(_get_argnums(diff, ARGS))

(* The parameters of a call: T1 differs per lane, T2 is per lane or one     *)
(* value for the batch, M0 is one value.                                    *)
BatchInputs(B) ==
    { <<Tensor("real", 1, [l \in 1 .. B |-> l]), T2, Tensor("real", 1, <<1>>)>> :
        T2 \in { Tensor("real", 1, <<2>>), Tensor("real", 1, [l \in 1 .. B |-> 2 * l + 1]) } }
ModelArgs ==
    UNION { [diff : { PyNone, Str("T1"), Names(<<"T2">>), Names(<<"T2", "T1">>), Unsupported },
             chunk_size : 1 .. MaxChunk, kwargs : BOOLEAN, inputs : BatchInputs(B),
             fn : { e \in Engines : e.samples = MaxSamples /\ e.coef[1] = <<1, 2>>
                                    /\ e.coef[2] = <<0, 1>> /\ e.coef[3] = <<1, 0>> }] :
            B \in 1 .. MaxBatch }

(* Positional inputs handed to the callable forward returned: none, one    *)
(* value for the batch, one per lane, or as many as the parameters.        *)
LaterInputs(B) ==
    { <<>>, <<Tensor("real", 1, <<5>>)>>, <<Tensor("real", 1, [l \in 1 .. B |-> 10 * l])>>,
      <<Tensor("real", 1, [l \in 1 .. B |-> 7 + l]), Tensor("real", 1, <<9>>),
        Tensor("real", 1, <<3>>)>> }

ModelInit ==
    /\ args \in ModelArgs
    /\ \/ pc \in {"call_forward", "jacobian"}
       \/ pc = "forward" /\ ~args.kwargs
    /\ ops = NoOp
    /\ signal = NoResult
    /\ EngineIdle

(* forward_fn = self.forward(...): _get_func resolves diff.                 *)
CallForward ==
    /\ pc = "call_forward"
    /\ IF args.diff # PyNone /\ _get_argnums(args.diff, ARGS) = ValueError
       THEN pc' = "call_error" /\ ops' = ops
       ELSE /\ pc' = "call_run_forward"
            /\ ops' = [kind |-> "call", forward_fn |-> args.inputs, output |-> PyNone,
                       jacobian_fn |-> PyNone, jacobian_output |-> PyNone]
    /\ UNCHANGED <<args, signal>>
    /\ EngineUnchanged

(* output = forward_fn(args, kwargs): the inputs of the partial, then      *)
(* those of the call; vmapped_engine takes no keyword (TypeError).        *)
CallRunForward ==
    /\ pc = "call_run_forward"
    /\ IF args.kwargs
       THEN pc' = "call_error" /\ ops' = ops
       ELSE /\ ops' = [ops EXCEPT !.output =
                          vmapped_engine(args.fn, args.chunk_size, ops.forward_fn \o args.inputs)]
            /\ pc' = IF args.diff = PyNone THEN "call_return" ELSE "call_jacobian"
    /\ UNCHANGED <<args, signal>>
    /\ EngineUnchanged

CallJacobian ==
    /\ pc = "call_jacobian"
    /\ ops' = [ops EXCEPT !.jacobian_fn = jacobian(args.diff)]
    /\ pc' = "call_run_jacobian"
    /\ UNCHANGED <<args, signal>>
    /\ EngineUnchanged

CallRunJacobian ==
    /\ pc = "call_run_jacobian"
    /\ \E out \in { jacobian_engine(args.fn, ops.jacobian_fn.value[1], args.chunk_size,
                                    args.inputs \o args.inputs) } :
          IF out = IndexError
          THEN pc' = "call_error" /\ ops' = ops
          ELSE pc' = "call_return" /\ ops' = [ops EXCEPT !.jacobian_output = out]
    /\ UNCHANGED <<args, signal>>
    /\ EngineUnchanged

CallReturn ==
    /\ pc = "call_return"
    /\ signal' = IF args.diff = PyNone THEN ops.output
                 ELSE Tuple(<<ops.output, ops.jacobian_output>>)
    /\ pc' = "call_done"
    /\ UNCHANGED <<args, ops>>
    /\ EngineUnchanged

(* model.jacobian(...) called on its own.                                   *)
Jacobian ==
    /\ pc = "jacobian"
    /\ signal' = jacobian(args.diff)
    /\ pc' = IF jacobian(args.diff) = ValueError THEN "call_error" ELSE "jacobian_done"
    /\ UNCHANGED <<args, ops>>
    /\ EngineUnchanged

(* model.forward(...) called on its own: the partial over the inputs.      *)
Forward ==
    /\ pc = "forward"
    /\ IF args.diff # PyNone /\ _get_argnums(args.diff, ARGS) = ValueError
       THEN pc' = "call_error" /\ ops' = ops
       ELSE /\ pc' = "forward_invoke"
            /\ ops' = [kind |-> "forward", forward_fn |-> args.inputs,
                       inputs |-> <<>>, outputs |-> <<>>]
    /\ UNCHANGED <<args, signal>>
    /\ EngineUnchanged

(* The callable invoked on inputs of its own, twice: the inputs of the     *)
(* partial, then those of the invocation.                                  *)
ForwardInvoke(first, second) ==
    /\ pc = "forward_invoke"
    /\ ops' = [ops EXCEPT
                  !.inputs = <<first, second>>,
                  !.outputs = <<vmapped_engine(args.fn, args.chunk_size, ops.forward_fn \o first),
                                vmapped_engine(args.fn, args.chunk_size, ops.forward_fn \o second)>>]
    /\ pc' = "forward_done"
    /\ UNCHANGED <<args, signal>>
    /\ EngineUnchanged

ModelNext ==
    \/ CallForward \/ CallRunForward \/ CallJacobian \/ CallRunJacobian \/ CallReturn
    \/ Jacobian
    \/ Forward
    \/ \E first, second \in LaterInputs(len(args.inputs[1])) : ForwardInvoke(first, second)

SpecModel == ModelInit /\ [][ModelNext]_vars

---------------------------------------------------------------------------
(* BaseSimulator.initialize_spin_params (_epg/model/base.py) for one lane   *)
(* of the batch: the object's fields are held in ops, an optional one as    *)
(* None or Some(value), T1 and T2 as one value per pool.  Times are drawn   *)
(* from 4 upward, where adding float32 eps leaves a float32 unchanged.      *)
Times == { R(4), R(8) }
Optional(S) == { None } \cup { Some(x) : x \in S }

SimArgs ==
    [T1 : Times, T2 : Times, T2star : Optional({ R(2), R(4), R(8), R(16) }),
     B0 : { None }, B1 : Optional({ ROne }), B1Tx2 : Optional({ ROne }),
     chemshift : Optional({ RZero }), chemshift_bm : { None },
     T1bm : Optional({ R(8) }), T2bm : Optional({ R(4), R(16) }), kbm : Optional({ ROne }),
     weight_bm : Optional({ Half }), kmt : Optional({ ROne }), weight_mt : Optional({ Half })]

SimInit ==
    /\ pc = "sim_params"
    /\ args \in SimArgs
    /\ ops = NoOp
    /\ signal = NoResult
    /\ EngineIdle

(* The assignments of initialize_spin_params and _cast: the properties that *)
(* are given become tensors with a trailing pool axis.                      *)
InitializeSpinParams ==
    /\ pc = "sim_params"
    /\ ops' = [kind |-> "simulator", model |-> "None", df |-> None,
               T1 |-> <<args.T1>>, T2 |-> <<args.T2>>, T2star |-> args.T2star,
               B0 |-> args.B0, B1 |-> args.B1, B1Tx2 |-> args.B1Tx2, B1phase |-> None,
               chemshift |-> args.chemshift, chemshift_bm |-> args.chemshift_bm,
               T1bm |-> args.T1bm, T2bm |-> args.T2bm, kbm |-> args.kbm,
               weight_bm |-> args.weight_bm, kmt |-> args.kmt, weight_mt |-> args.weight_mt]
    /\ pc' = "sim_model"
    /\ UNCHANGED <<args, signal>>
    /\ EngineUnchanged

(* _initialize_model: a failed assert ends the setup with AssertionError.   *)
InitializeModel ==
    /\ pc = "sim_model"
    /\ LET self == ops
           bm == self.T1bm # None
           mt == self.kmt # None
           asserted ==
               /\ bm => (self.T2bm # None /\ self.kbm # None /\ self.weight_bm # None)
               /\ self.T2bm # None => self.T1bm # None
               /\ mt => self.weight_mt # None
               /\ self.weight_mt # None => self.kmt # None
       IN  IF ~asserted
           THEN pc' = "sim_assertion_error" /\ ops' = ops
           ELSE /\ pc' = "sim_fieldmap"
                /\ ops' = [self EXCEPT
                             !.model = IF mt THEN (IF bm THEN "bm-mt" ELSE "mt")
                                       ELSE IF bm THEN "bm" ELSE "None",
                             !.T1 = IF bm THEN self.T1 \o self.T1bm ELSE self.T1,
                             !.T2 = IF self.T2bm # None THEN self.T2 \o self.T2bm ELSE self.T2]
    /\ UNCHANGED <<args, signal>>
    /\ EngineUnchanged

(* _initialize_fieldmap: df = [real, imag / 2 pi]; B0 + None is a TypeError, *)
(* B1Tx2 without B1 an AssertionError.                                      *)
InitializeFieldmap ==
    /\ pc = "sim_fieldmap"
    /\ LET self == ops
           B0 == IF self.B0 = None THEN RZero ELSE self.B0[1]
           multipool == self.model # "None"
           starred == self.T2star # None
           R2prime == RSub(RDiv(ROne, self.T2star[1]), RDiv(ROne, self.T2[Len(self.T2)]))
           R2star == RDiv(ROne, self.T2star[1])
           shifted == RAdd(B0, self.chemshift[1])
           df == IF starred /\ multipool THEN <<R2prime, B0>>
                 ELSE IF ~starred /\ ~multipool THEN <<RZero, shifted>>
                 ELSE IF starred /\ ~multipool THEN <<R2star, shifted>>
                 ELSE <<RZero, B0>>
       IN  IF ~multipool /\ self.chemshift = None
           THEN pc' = "sim_type_error" /\ ops' = ops
           ELSE IF self.B1Tx2 # None /\ self.B1 = None
           THEN pc' = "sim_assertion_error" /\ ops' = [self EXCEPT !.B0 = Some(B0), !.df = Some(df)]
           ELSE /\ pc' = "sim_chemshift"
                /\ ops' = [self EXCEPT
                             !.B0 = Some(B0), !.df = Some(df),
                             !.B1phase = IF self.B1Tx2 # None THEN Some(RZero) ELSE None,
                             !.B1 = IF self.B1Tx2 # None THEN self.B1 \o self.B1Tx2 ELSE self.B1]
    /\ UNCHANGED <<args, signal>>
    /\ EngineUnchanged

(* _initialize_chemshift: in a "bm" model the one chemical shift given      *)
(* stands for both pools.                                                   *)
InitializeChemshift ==
    /\ pc = "sim_chemshift"
    /\ LET self == ops
           bm == self.model \in {"bm", "bm-mt"}
       IN  ops' = [self EXCEPT
                      !.chemshift_bm =
                          IF bm /\ self.chemshift_bm = None /\ self.chemshift # None
                          THEN self.chemshift ELSE self.chemshift_bm,
                      !.chemshift =
                          IF bm /\ self.chemshift_bm # None /\ self.chemshift = None
                          THEN self.chemshift_bm ELSE self.chemshift]
    /\ pc' = "sim_initialized"
    /\ UNCHANGED <<args, signal>>
    /\ EngineUnchanged

SimNext == InitializeSpinParams \/ InitializeModel \/ InitializeFieldmap \/ InitializeChemshift

SpecSim == SimInit /\ [][SimNext]_vars

---------------------------------------------------------------------------
(* mprage() (_epg/model/mprage.py): how the keyword arguments become the    *)
(* simulator's init_params and props, one action per commented section.     *)
DefaultLocs == 15

(* sliceprof: a bool, or a profile given as a list or as an array.          *)
Flag(b) == [type |-> "bool", truth |-> b, length |-> 0]
Profile(type, n) == [type |-> type, truth |-> n > 0, length |-> n]
SliceProfiles == { Flag(FALSE), Flag(TRUE), Profile("list", 3), Profile("list", 20), Profile("ndarray", 3) }

MprageKwargs ==
    [sliceprof : SliceProfiles, TI : Optional({0}), nlocs : Optional({1, 5, 20}),
     v : Optional({1}), global_inversion : Optional(BOOLEAN),
     inv_B1sqrdTau : Optional({4}), B1sqrdTau : Optional({9}), grad_tau : Optional({1})]

EmptyProps == [slice_selective |-> None, b1rms |-> None, duration |-> None, slice_profile |-> None]

MprageInit ==
    /\ pc = "mprage_selectivity"
    /\ args \in MprageKwargs
    /\ ops = [kind |-> "mprage", selective_exc |-> FALSE, selective_inv |-> FALSE,
              moving |-> FALSE, nlocs |-> args.nlocs,
              inv_props |-> EmptyProps, rf_props |-> EmptyProps, grad_props |-> None]
    /\ signal = NoResult
    /\ EngineIdle

(* "get selectivity" to "check for conflicts": the truth value of an array  *)
(* with more than one element is a ValueError.                              *)
MprageSelectivity ==
    /\ pc = "mprage_selectivity"
    /\ IF args.sliceprof.type = "ndarray" /\ args.sliceprof.length > 1
       THEN pc' = "mprage_value_error" /\ ops' = ops
       ELSE LET selective_exc == args.sliceprof.truth
                requested == args.global_inversion # None /\ ~args.global_inversion[1]
            IN  /\ ops' = [ops EXCEPT !.selective_exc = selective_exc,
                                      !.moving = selective_exc /\ args.v # None,
                                      !.selective_inv = requested /\ selective_exc]
                /\ pc' = "mprage_inv_props"
    /\ UNCHANGED <<args, signal>>
    /\ EngineUnchanged

MprageInversionProps ==
    /\ pc = "mprage_inv_props"
    /\ LET inv_props == IF args.TI = None THEN EmptyProps
                        ELSE [EmptyProps EXCEPT !.slice_selective = Some(ops.selective_inv)]
       IN  ops' = [ops EXCEPT !.inv_props =
                      IF args.inv_B1sqrdTau # None
                      THEN [inv_props EXCEPT !.b1rms = Some(ISqrt(args.inv_B1sqrdTau[1])),
                                             !.duration = Some(1)]
                      ELSE inv_props]
    /\ pc' = "mprage_rf_props"
    /\ UNCHANGED <<args, signal>>
    /\ EngineUnchanged

(* "excitation pulse properties": B1sqrdTau is written to inv_props, and    *)
(* kwargs never holds the named parameter sliceprof (KeyError).             *)
MprageRfProps ==
    /\ pc = "mprage_rf_props"
    /\ LET inv_props == IF args.B1sqrdTau # None
                        THEN [ops.inv_props EXCEPT !.b1rms = Some(ISqrt(args.B1sqrdTau[1])),
                                                   !.duration = Some(1)]
                        ELSE ops.inv_props
       IN  ops' = [ops EXCEPT !.rf_props = [EmptyProps EXCEPT !.slice_selective = Some(ops.selective_exc)],
                              !.inv_props = inv_props]
    /\ pc' = IF args.sliceprof.type # "bool" THEN "mprage_key_error" ELSE "mprage_nlocs"
    /\ UNCHANGED <<args, signal>>
    /\ EngineUnchanged

(* "get nlocs", "interpolate slice profile", "assign nlocs".                *)
MprageNlocs ==
    /\ pc = "mprage_nlocs"
    /\ LET nlocs == IF ops.nlocs # None THEN ops.nlocs[1]
                    ELSE IF ops.selective_exc THEN DefaultLocs ELSE 1
           profile == ops.rf_props.slice_profile
       IN  ops' = [ops EXCEPT !.nlocs =
                      IF profile # None
                      THEN Some(IF nlocs < profile[1].length THEN nlocs ELSE profile[1].length)
                      ELSE Some(1)]
    /\ pc' = "mprage_grad_props"
    /\ UNCHANGED <<args, signal>>
    /\ EngineUnchanged

MprageGradProps ==
    /\ pc = "mprage_grad_props"
    /\ ops' = [ops EXCEPT !.grad_props = args.grad_tau]
    /\ pc' = "mprage_simulate"
    /\ UNCHANGED <<args, signal>>
    /\ EngineUnchanged

MprageNext ==
    \/ MprageSelectivity \/ MprageInversionProps \/ MprageRfProps \/ MprageNlocs
    \/ MprageGradProps

SpecMprage == MprageInit /\ [][MprageNext]_vars

---------------------------------------------------------------------------
(* broadcast_arguments (base/decorators/_broadcast.py), one action per      *)
(* statement.  Positional arguments are a tuple, keyword arguments a dict   *)
(* over Keys in the order given; broadcast_tensors hands back a tuple, or   *)
(* a list in a build where it does.                                         *)
Keys == <<"a", "b">>
Scalar(v) == [dtype |-> "int", rank |-> 0, data |-> <<v>>]
isinstance_Tensor(x) == x.dtype \in {"real", "complex"}

ArgumentValues ==
    { Scalar(7), Tensor("real", 1, <<5>>), Tensor("real", 1, [l \in 1 .. MaxBatch |-> l]) }
BroadcastCalls ==
    [args : UNION { [1 .. n -> ArgumentValues] : n \in 0 .. 3 },
     kwargs : UNION { [K -> ArgumentValues] : K \in SUBSET {Keys[k] : k \in DOMAIN Keys} },
     sequence : {"tuple", "list"}]

(* The keys of a dict, in order; the positions or keys holding a tensor.    *)
KeysOf(dict) == SelectSeq(Keys, LAMBDA key : key \in DOMAIN dict)

_get_tensor_args_kwargs(args_, kwargs) ==
    LET positions == [n \in DOMAIN args_ |-> n]
        indexes == SelectSeq(positions, LAMBDA n : isinstance_Tensor(args_[n]))
        keys == SelectSeq(KeysOf(kwargs), LAMBDA key : isinstance_Tensor(kwargs[key]))
    IN  [items |-> [n \in DOMAIN indexes |-> args_[indexes[n]]],
         kwitems |-> [key \in {keys[k] : k \in DOMAIN keys} |-> kwargs[key]],
         indexes |-> [n \in DOMAIN indexes |-> indexes[n] - 1],
         keys |-> keys]

BroadcastInit ==
    /\ pc = "bc_collect"
    /\ args \in BroadcastCalls
    /\ ops = NoOp
    /\ signal = NoResult
    /\ EngineIdle

BroadcastCollect ==
    /\ pc = "bc_collect"
    /\ LET got == _get_tensor_args_kwargs(args.args, args.kwargs)
       IN  ops' = [kind |-> "broadcast", items |-> got.items, kwitems |-> got.kwitems,
                   indexes |-> got.indexes, keys |-> got.keys, tmp |-> <<>>,
                   args |-> args.args, kwargs |-> args.kwargs]
    /\ pc' = "bc_broadcast"
    /\ UNCHANGED <<args, signal>>
    /\ EngineUnchanged

BroadcastTensors ==
    /\ pc = "bc_broadcast"
    /\ ops' = [ops EXCEPT !.tmp =
                  broadcast_tensors(ops.items \o [k \in DOMAIN ops.keys |-> ops.kwitems[ops.keys[k]]])]
    /\ pc' = "bc_items"
    /\ UNCHANGED <<args, signal>>
    /\ EngineUnchanged

(* for n in range(len(items)): items[n] = tmp[0]; tmp.pop(0) -- a tuple    *)
(* has no pop (AttributeError).                                            *)
BroadcastItems ==
    /\ pc = "bc_items"
    /\ IF Len(ops.items) > 0 /\ args.sequence = "tuple"
       THEN pc' = "bc_attribute_error"
            /\ ops' = [ops EXCEPT !.items = [n \in DOMAIN ops.items |->
                                                IF n = 1 THEN ops.tmp[1] ELSE ops.items[n]]]
       ELSE pc' = "bc_kwitems"
            /\ ops' = [ops EXCEPT !.items = SubSeq(ops.tmp, 1, Len(ops.items)),
                                  !.tmp = SubSeq(ops.tmp, Len(ops.items) + 1, Len(ops.tmp))]
    /\ UNCHANGED <<args, signal>>
    /\ EngineUnchanged

BroadcastKwitems ==
    /\ pc = "bc_kwitems"
    /\ ops' = [ops EXCEPT !.kwitems =
                  [key \in DOMAIN ops.kwitems |->
                      ops.tmp[CHOOSE k \in DOMAIN ops.keys : ops.keys[k] = key]]]
    /\ pc' = "bc_assign_args"
    /\ UNCHANGED <<args, signal>>
    /\ EngineUnchanged

(* for idx in indexes: args[idx] = items[idx] -- args is a tuple           *)
(* (TypeError on the first assignment).                                    *)
BroadcastAssignArgs ==
    /\ pc = "bc_assign_args"
    /\ pc' = IF Len(ops.indexes) > 0 THEN "bc_type_error" ELSE "bc_assign_kwargs"
    /\ UNCHANGED <<args, ops, signal>>
    /\ EngineUnchanged

BroadcastAssignKwargs ==
    /\ pc = "bc_assign_kwargs"
    /\ ops' = [ops EXCEPT !.kwargs =
                  [key \in DOMAIN ops.kwargs |->
                      IF key \in DOMAIN ops.kwitems THEN ops.kwitems[key] ELSE ops.kwargs[key]]]
    /\ pc' = "bc_return"
    /\ UNCHANGED <<args, signal>>
    /\ EngineUnchanged

BroadcastReturn ==
    /\ pc = "bc_return"
    /\ signal' = [args |-> ops.args, kwargs |-> ops.kwargs]
    /\ pc' = "bc_done"
    /\ UNCHANGED <<args, ops>>
    /\ EngineUnchanged

BroadcastNext ==
    \/ BroadcastCollect \/ BroadcastTensors \/ BroadcastItems \/ BroadcastKwitems
    \/ BroadcastAssignArgs \/ BroadcastAssignKwargs \/ BroadcastReturn

SpecBroadcast == BroadcastInit /\ [][BroadcastNext]_vars

---------------------------------------------------------------------------
(* MPRAGEModel.set_sequence (torchsim), one action per group of            *)
(* statements.  Times are kept in seconds as exact fractions, the flip     *)
(* angle as a fraction of pi; nshots is the sequence of the tensor's       *)
(* elements.  A None default reaches the body as None, as the sibling      *)
(* BSSFPModel.set_sequence relies on for TE.                               *)
SetSeqArgs ==
    [TI : {0, 500}, flip : {5, 90}, TRspgr : {5}, nshots : { <<128>>, <<7>>, <<2, 3>> },
     TRmprage : Optional({2000}), num_inversions : 1 .. MaxReps]

SetSeqInit ==
    /\ pc = "setseq_units"
    /\ args \in SetSeqArgs
    /\ ops = [kind |-> "sequence", nshots |-> None, TI |-> None, flip |-> None,
              TRspgr |-> None, TRmprage |-> None, num_inversions |-> None]
    /\ signal = NoResult
    /\ EngineIdle

(* self.sequence.nshots, TI, flip, TRspgr.                                 *)
SetSeqUnits ==
    /\ pc = "setseq_units"
    /\ ops' = [ops EXCEPT !.nshots = Some(args.nshots),
                          !.TI = Some(Rat(args.TI, Kilo)),
                          !.flip = Some(Rat(args.flip, 180)),
                          !.TRspgr = Some(Rat(args.TRspgr, Kilo))]
    /\ pc' = "setseq_nshots"
    /\ UNCHANGED <<args, signal>>
    /\ EngineUnchanged

(* A scalar nshots is halved and repeated.                                 *)
SetSeqShots ==
    /\ pc = "setseq_nshots"
    /\ LET nshots == IF Len(args.nshots) = 1
                     THEN <<args.nshots[1] \div 2, args.nshots[1] \div 2>>
                     ELSE args.nshots
       IN  ops' = [ops EXCEPT !.nshots = Some(nshots)]
    /\ pc' = "setseq_trmprage"
    /\ UNCHANGED <<args, signal>>
    /\ EngineUnchanged

(* self.sequence.TRmprage = TRmprage * 1e-3: None * float is a TypeError.  *)
SetSeqTRmprage ==
    /\ pc = "setseq_trmprage"
    /\ IF args.TRmprage = None
       THEN pc' = "setseq_type_error" /\ ops' = ops
       ELSE /\ ops' = [ops EXCEPT !.TRmprage = Some(Rat(args.TRmprage[1], Kilo))]
            /\ pc' = "setseq_check"
    /\ UNCHANGED <<args, signal>>
    /\ EngineUnchanged

(* The check for multiple inversions, then num_inversions.                 *)
SetSeqCheck ==
    /\ pc = "setseq_check"
    /\ IF args.TRmprage = None /\ args.num_inversions > 1
       THEN pc' = "setseq_value_error" /\ ops' = ops
       ELSE /\ ops' = [ops EXCEPT !.num_inversions = Some(args.num_inversions)]
            /\ pc' = "setseq_done"
    /\ UNCHANGED <<args, signal>>
    /\ EngineUnchanged

SetSeqNext == SetSeqUnits \/ SetSeqShots \/ SetSeqTRmprage \/ SetSeqCheck

SpecSetSeq == SetSeqInit /\ [][SetSeqNext]_vars

---------------------------------------------------------------------------
(* BaseSimulator._initialize_differentiation, one action per statement and *)
(* per iteration of its loop.  A name is the sequence of its characters,   *)
(* so that Python's `in` is the substring test on a str and the membership *)
(* test on a tuple or a list.                                              *)
N_B0 == <<"B", "0">>
N_B1 == <<"B", "1">>
N_B1Tx2 == <<"B", "1", "T", "x", "2">>
N_B1phase == <<"B", "1", "p", "h", "a", "s", "e">>
N_T1 == <<"T", "1">>
N_T1bm == <<"T", "1", "b", "m">>
N_T2 == <<"T", "2">>
N_T2bm == <<"T", "2", "b", "m">>
N_T2star == <<"T", "2", "s", "t", "a", "r">>
N_kbm == <<"k", "b", "m">>
N_kmt == <<"k", "m", "t">>

(* dir(self), in its sorted order, restricted to spin properties.          *)
dir_self ==
    << N_B0, N_B1, N_B1Tx2, N_B1phase, <<"D">>, N_T1, N_T1bm, N_T2, N_T2bm, N_T2star,
       N_kbm, N_kmt, <<"v">> >>

EmptyList == [type |-> "list", value |-> <<>>]

(* fname in container.                                                     *)
contains(container, fname) ==
    IF container.type = "str"
    THEN LET text == container.value[1]
         IN  \E k \in 0 .. Len(text) - Len(fname) : SubSeq(text, k + 1, k + Len(fname)) = fname
    ELSE \E k \in DOMAIN container.value : container.value[k] = fname

DiffRequests ==
    { PyNone, Str(N_T1), Str(N_T1bm), Str(N_T2star), Str(N_B1phase), Str(N_kbm),
      Names(<<N_T1>>), Names(<<N_T1bm>>), Names(<<N_T2star, N_B1>>), Names(<<N_B1phase, N_T2>>) }

(* The properties that hold a tensor; the others are None.                 *)
GivenProperties ==
    { {N_T1, N_T2}, {N_T1, N_T2, N_B1, N_T2star}, { dir_self[k] : k \in DOMAIN dir_self } }

DiffArgs == [diff : DiffRequests, given : GivenProperties]

DiffInit ==
    /\ pc = "diff_default"
    /\ args \in DiffArgs
    /\ ops = [kind |-> "simulator", diff |-> args.diff, next |-> 1, requires_grad |-> {}]
    /\ signal = NoResult
    /\ EngineIdle

(* if self.diff is None: self.diff = [].                                   *)
DiffDefault ==
    /\ pc = "diff_default"
    /\ ops' = [ops EXCEPT !.diff = IF ops.diff = PyNone THEN EmptyList ELSE ops.diff]
    /\ pc' = "diff_loop"
    /\ UNCHANGED <<args, signal>>
    /\ EngineUnchanged

(* One iteration of the loop over dir(self): None has no requires_grad.    *)
DiffVisit ==
    /\ pc = "diff_loop"
    /\ ops.next <= Len(dir_self)
    /\ LET fname == dir_self[ops.next]
       IN  IF ~contains(ops.diff, fname)
           THEN ops' = [ops EXCEPT !.next = ops.next + 1] /\ pc' = pc
           ELSE IF fname \notin args.given
           THEN ops' = ops /\ pc' = "diff_attribute_error"
           ELSE /\ ops' = [ops EXCEPT !.next = ops.next + 1,
                                      !.requires_grad = ops.requires_grad \cup {fname}]
                /\ pc' = pc
    /\ UNCHANGED <<args, signal>>
    /\ EngineUnchanged

DiffReturn ==
    /\ pc = "diff_loop"
    /\ ops.next > Len(dir_self)
    /\ pc' = "diff_done"
    /\ UNCHANGED <<args, ops, signal>>
    /\ EngineUnchanged

DiffNext == DiffDefault \/ DiffVisit \/ DiffReturn

SpecDiff == DiffInit /\ [][DiffNext]_vars

---------------------------------------------------------------------------
(* Claims about the operators, checked under Spec.                         *)

Created == call.op = "states_matrix"
ZeroTransverse(st) == AllEntries(st.Fplus, CZero) /\ AllEntries(st.Fminus, CZero)

C2_AllOnes ==
    Created => AllEntries(states.Z, COne) /\ ZeroTransverse(states)

(* C3: longitudinal_relaxation_op(R1, time) returns rE1 = 1 - E1 with      *)
(* 0 <= E1 <= 1 for R1 >= 0 and time >= 0, and E1 = 1, rE1 = 0 as soon as   *)
(* R1 = 0 or time = 0.                                                     *)
C3_RelaxationOp ==
    ops.kind = "longitudinal_relaxation_op" =>
        /\ RAdd(ops.E1, ops.rE1) = ROne
        /\ RLeq(RZero, ops.E1) /\ RLeq(ops.E1, ROne)
        /\ (ops.R1 = 0 \/ ops.time = 0) => (ops.E1 = ROne /\ ops.rE1 = RZero)

C3_Witness ==
    /\ ops.kind = "longitudinal_relaxation_op"
    /\ ops.R1 = MaxRate /\ ops.time = 0
    /\ ops.E1 = ROne

(* C4: longitudinal_relaxation multiplies Z by E1 at every order and adds  *)
(* the recovery term rE1 at order 0 only, for every location and pool.     *)
C4_RecoveryAtOrderZero ==
    call.op = "longitudinal_relaxation" =>
        /\ DOMAIN states.Z = DOMAIN inp.Z
        /\ \A s \in DOMAIN inp.Z : \A l \in DOMAIN inp.Z[s] : \A q \in DOMAIN inp.Z[s][l] :
              states.Z[s][l][q] =
                  IF s = 0 THEN CAdd(CScale(call.E1, inp.Z[s][l][q]), CR(call.rE1))
                  ELSE CScale(call.E1, inp.Z[s][l][q])

C4_Witness ==
    /\ call.op = "longitudinal_relaxation"
    /\ NStates(inp.Z) >= 2
    /\ call.rE1 # RZero
    /\ inp.Z[1][1][1] # CZero
    /\ states.Z[1][1][1] = CScale(call.E1, inp.Z[1][1][1])

(* C5: rf_pulse with the matrix built for flip angle 0, by rf_pulse_op or  *)
(* by phased_rf_pulse_op at any phase, returns Fplus, Fminus and Z         *)
(* unchanged, whatever the input state.                                    *)
C5_ZeroFlipIsIdentity ==
    (call.op = "rf_pulse" /\ call.fa = 0) => states = inp

C5_Witness ==
    /\ call.op = "rf_pulse" /\ call.fa = 0
    /\ call.builder = "phased_rf_pulse_op" /\ call.phi = 1
    /\ inp.Fminus[0][1][1] # CZero /\ inp.Fplus[0][1][1] # CZero
    /\ states = inp

(* C6: rf_pulse with flip angle pi and phase 0 (B1 = 1, slice_prof = 1)    *)
(* applied to the equilibrium state gives Z[0] = -1 and leaves every       *)
(* Fplus and Fminus entry at 0.                                            *)
Pi == 2
InversionCall ==
    /\ call.op = "rf_pulse"
    /\ call.fa = Pi /\ call.phi = 0 /\ call.B1 = 1 /\ call.slice_prof = <<1>>
    /\ inp = states_matrix(NStates(inp.Z), NLocs(inp.Z), NPools(inp.Fplus), NPools(inp.Z))

C6_PiPulseInverts ==
    InversionCall =>
        /\ \A l \in DOMAIN states.Z[0] : \A q \in DOMAIN states.Z[0][l] :
              states.Z[0][l][q] = CNeg(COne)
        /\ ZeroTransverse(states)

C6_Witness ==
    /\ InversionCall
    /\ call.builder = "rf_pulse_op"
    /\ NStates(inp.Z) = MaxStates
    /\ states.Z[0][1][1] = CNeg(COne)

(* C7: with the exchange matrix k all zero, the exchange operator is the   *)
(* single-pool operator per pool: the diagonal of its E1 is                *)
(* longitudinal_relaxation_op's E1 of that pool, the off-diagonal entries  *)
(* are 0, and the recovery vector is weight * (1 - E1) per pool.           *)
NoExchange == <<<<0, 0>>, <<0, 0>>>>
C7_ZeroExchangeIsSinglePool ==
    (ops.kind = "longitudinal_relaxation_exchange_op" /\ ops.k = NoExchange) =>
        \A a \in 1 .. 2 :
            LET single == longitudinal_relaxation_op(ops.R1[a], ops.time)
            IN  /\ ops.E1[a][a] = single[1]
                /\ \A b \in (1 .. 2) \ {a} : ops.E1[a][b] = RZero
                /\ ops.rE1[a] = RMul(ops.weight[a], single[2])

C7_Witness ==
    /\ ops.kind = "longitudinal_relaxation_exchange_op" /\ ops.k = NoExchange
    /\ ops.R1[1] # ops.R1[2] /\ ops.R1[1] > 0 /\ ops.time > 0
    /\ ops.weight[1] # ops.weight[2]
    /\ ops.E1[1][1] # ops.E1[2][2]

(* C22: each relaxation operator changes only its own component:          *)
(* transverse_relaxation multiplies Fplus and Fminus by E2 at every order  *)
(* and leaves Z unchanged; longitudinal_relaxation leaves Fplus and Fminus *)
(* unchanged.                                                              *)
C22_RelaxationFrame ==
    /\ call.op = "transverse_relaxation" =>
          /\ states.Z = inp.Z
          /\ DOMAIN states.Fplus = DOMAIN inp.Fplus /\ DOMAIN states.Fminus = DOMAIN inp.Fminus
          /\ \A s \in DOMAIN inp.Fplus : \A l \in DOMAIN inp.Fplus[s] : \A q \in DOMAIN inp.Fplus[s][l] :
                /\ states.Fplus[s][l][q] = CScale(call.E2, inp.Fplus[s][l][q])
                /\ states.Fminus[s][l][q] = CScale(call.E2, inp.Fminus[s][l][q])
    /\ call.op = "longitudinal_relaxation" =>
          (states.Fplus = inp.Fplus /\ states.Fminus = inp.Fminus)

C22_Witness ==
    /\ call.op = "transverse_relaxation"
    /\ call.E2 = Rat(1, 2)
    /\ NStates(inp.Z) = MaxStates
    /\ inp.Z[1][1][1] # CZero /\ inp.Fplus[1][1][1] # CZero
    /\ states.Fplus[1][1][1] # inp.Fplus[1][1][1]
    /\ states.Z = inp.Z

(* C25: the two RF matrix builders agree on a zero phase: for every fa,    *)
(* slice_prof and B1, phased_rf_pulse_op(fa, 0, slice_prof, B1) has the    *)
(* nine entries of rf_pulse_op(fa, slice_prof, B1), and applying either to *)
(* a state gives the same Fplus, Fminus and Z.                             *)
C25_BuildersAgreeAtZeroPhase ==
    (call.op = "rf_pulse" /\ call.builder = "phased_rf_pulse_op" /\ call.phi = 0) =>
        LET RF == rf_pulse_op(<<call.fa>>, call.slice_prof, <<call.B1>>)
        IN  /\ call.RF = RF
            /\ states = rf_pulse(inp, RF)

(* C26: rotations about the same axis compose additively: rf_pulse with    *)
(* the rf_pulse_op matrix for flip angle pi/2, applied twice in a row to   *)
(* the equilibrium state, gives Z[0] = -1 and Fplus = Fminus = 0, the      *)
(* state one pulse of flip angle pi gives.                                 *)
C26_HalfPulsesCompose ==
    (/\ call.op = "rf_pulse twice" /\ call.builder = "rf_pulse_op"
     /\ 2 * call.fa = Pi /\ call.B1 = 1 /\ call.slice_prof = <<1>>
     /\ inp = states_matrix(NStates(inp.Z), NLocs(inp.Z), NPools(inp.Fplus), NPools(inp.Z))) =>
        /\ states = rf_pulse(inp, rf_pulse_op(<<Pi>>, <<1>>, <<1>>))
        /\ \A l \in DOMAIN states.Z[0] : \A q \in DOMAIN states.Z[0][l] :
              states.Z[0][l][q] = CNeg(COne)
        /\ ZeroTransverse(states)

(* C27: relaxation composes over consecutive intervals: for any state and  *)
(* factors Ea, Eb, longitudinal_relaxation with (Ea, 1 - Ea) and then with *)
(* (Eb, 1 - Eb) gives the Z of one application with (Ea Eb, 1 - Ea Eb);    *)
(* the equilibrium state is left unchanged by any longitudinal_relaxation  *)
(* with rE1 = 1 - E1.                                                      *)
Complement(E1) == RSub(ROne, E1)
C27_RelaxationComposes ==
    /\ (/\ call.op = "longitudinal_relaxation twice"
        /\ call.rEa = Complement(call.Ea) /\ call.rEb = Complement(call.Eb)) =>
          LET E == RMul(call.Ea, call.Eb)
          IN  /\ DOMAIN states.Z = DOMAIN inp.Z
              /\ \A s \in DOMAIN inp.Z : \A l \in DOMAIN inp.Z[s] : \A q \in DOMAIN inp.Z[s][l] :
                    states.Z[s][l][q] =
                        IF s = 0 THEN CAdd(CScale(E, inp.Z[s][l][q]), CR(Complement(E)))
                        ELSE CScale(E, inp.Z[s][l][q])
    /\ (/\ call.op = "longitudinal_relaxation" /\ call.rE1 = Complement(call.E1)
        /\ inp = states_matrix(NStates(inp.Z), NLocs(inp.Z), NPools(inp.Fplus), NPools(inp.Z))) =>
          states = inp

C27_Witness ==
    /\ call.op = "longitudinal_relaxation twice"
    /\ call.Ea = Rat(1, 2) /\ call.rEa = Rat(1, 2)
    /\ call.Eb = Rat(4, 5) /\ call.rEb = Rat(1, 5)
    /\ NStates(inp.Z) = MaxStates
    /\ inp.Z[0][1][1] # COne /\ inp.Z[1][1][1] # CZero
    /\ states.Z[0][1][1] = CAdd(CScale(Rat(2, 5), inp.Z[0][1][1]), CR(Rat(3, 5)))

---------------------------------------------------------------------------
(* Claims about MRFModel._engine, checked under SpecMRF.                   *)

FirstPulseDue(where) == pc = where /\ i = 0 /\ p = 0

(* C8: started from equilibrium with inv_efficiency = 1 and TI = 0, the    *)
(* state the first RF pulse of the excitation loop is applied to has       *)
(* Z[0] = -1 and every Fplus and Fminus entry 0.                           *)
C8_MRFStartsInverted ==
    (FirstPulseDue("mrf_rf") /\ args.inv_efficiency = ROne /\ args.TI = 0) =>
        /\ \A l \in DOMAIN states.Z[0] : \A q \in DOMAIN states.Z[0][l] :
              states.Z[0][l][q] = CNeg(COne)
        /\ ZeroTransverse(states)

C8_Witness ==
    /\ FirstPulseDue("mrf_rf") /\ args.inv_efficiency = ROne /\ args.TI = 0
    /\ args.T1 = Rat(1, 2) /\ args.nstates = MaxStates /\ Len(args.slice_prof) = 2
    /\ states.Z[0][2][1] = CNeg(COne)

(* C11: the trajectory MRFModel._engine returns holds one sample for every  *)
(* RF excitation of the run, nreps * nshots samples for nreps repetitions   *)
(* of an nshots-pulse train.                                                *)
C11_OneSamplePerExcitation ==
    pc = "mrf_done" => Len(signal) = args.nreps * Len(args.alpha)

---------------------------------------------------------------------------
(* Claims about MPRAGEModel._engine, checked under SpecMPRAGE.             *)

(* C9: with inv_efficiency = 1 and TI = 0, for every nshots = (npre,       *)
(* npost) and TRspgr > 0, the excitation loop of the first inversion block *)
(* starts from Z[0] = -1.                                                  *)
C9_MPRAGEStartsInverted ==
    (FirstPulseDue("mp_rf") /\ args.inv_efficiency = ROne /\ args.TI = 0) =>
        states.Z[0][1][1] = CNeg(COne)

---------------------------------------------------------------------------
(* Claims about MPRAGE.sequence, checked under SpecSeq.                    *)

(* The phases of the RF pulses applied so far, in order; phi_0 = 0.        *)
Pulses == SelectSeq(states, LAMBDA b : b.block = "RF")
AppliedPhase(n) == IF n = 0 THEN 0 ELSE Pulses[n].phi

(* C10: with phi_0 = 0 and spoiling increment inc, the phase of the n-th   *)
(* pulse follows one of the two documented schedules for every n: the      *)
(* running quadratic phi_n = (phi_{n-1} + n*inc) mod 360 or the fixed      *)
(* increment phi_n = (phi_{n-1} + inc) mod 360.                            *)
C10_DocumentedPhaseSchedule ==
    \A n \in 1 .. Len(Pulses) :
        \/ AppliedPhase(n) = (AppliedPhase(n - 1) + n * args.spoil_inc) % FullTurn
        \/ AppliedPhase(n) = (AppliedPhase(n - 1) + args.spoil_inc) % FullTurn

(* The blocks of iteration n (from 0) in the log, the preparation first.   *)
Step(n, k) == states[1 + 3 * n + k]

(* C21: the preparation block is applied exactly once, before the first    *)
(* excitation; every iteration runs RF pulse, relaxation to the echo,      *)
(* observation into signal[n], relaxation with spoiling, and only then     *)
(* the advance of the RF phase, so the first excitation has phi = 0.       *)
C21_PhaseAdvancedLast ==
    /\ \A k \in DOMAIN states : states[k].block = "Prep" <=> k = 1
    /\ \A n \in 0 .. p - 1 :
          /\ Step(n, 1).block = "RF" /\ Step(n, 2).block = "X" /\ Step(n, 3).block = "XS"
          /\ signal[n + 1] # Unset /\ signal[n + 1][1].after = 1 + 3 * n + 2
    /\ Len(Pulses) >= 1 => Pulses[1].phi = 0

(* C29: for every spoil_inc, positive, zero or negative, and after any     *)
(* number of iterations, phi and dphi satisfy 0 <= value < 360.            *)
C29_PhaseWithinFullTurn ==
    /\ 0 <= phase.phi /\ phase.phi < FullTurn
    /\ 0 <= phase.dphi /\ phase.dphi < FullTurn

C29_Witness ==
    /\ pc = "seq_done" /\ args.spoil_inc < 0 /\ p = MaxPulses
    /\ phase.phi # 0 /\ phase.dphi # phase.phi

---------------------------------------------------------------------------
(* Claims about the differentiation adapter, checked under SpecJac.        *)

Values(tensor) ==
    [k \in DOMAIN tensor.data |->
        IF is_complex(tensor) THEN tensor.data[k] ELSE <<tensor.data[k], 0>>]

(* d output / d parameter of the linear engine, sample by sample.          *)
Derivative(e, argnum) ==
    [s \in 1 .. e.samples |->
        <<s * e.coef[argnum + 1][1],
          IF e.dtype = "complex" THEN s * e.coef[argnum + 1][2] ELSE 0>>]

Differentiated == pc \in {"jac_done", "jac_error"} /\ args.recombine_output

(* C12: when diff names k >= 1 parameters, as a string or as a tuple of k  *)
(* names, the recombined Jacobian has one slice per named parameter, and   *)
(* slice i is the complex derivative of the output with respect to the     *)
(* i-th named parameter alone: none is mixed with another, none dropped.   *)
C12_OneSlicePerNamedParameter ==
    (Differentiated /\ args.diff.type \in {"str", "tuple"}) =>
        /\ pc = "jac_done"
        /\ IF args.diff.type = "str"
           THEN Values(signal) = Derivative(args.fn, ops.argnums.value[1])
           ELSE /\ len(signal) = Len(args.diff.value)
                /\ \A d \in DOMAIN args.diff.value :
                      Values(getitem(signal, d - 1)) = Derivative(args.fn, ops.argnums.value[d])

(* C13: combine_real_imag(split_real_imag(x)) has the values of x; the     *)
(* split stacks the real and the imaginary parts along a new leading axis  *)
(* of length 2, all zeros for the imaginary part of a real x; the result   *)
(* is real-typed exactly when every imaginary component is zero.           *)
C13_SplitCombineRoundTrip ==
    pc = "rt_done" =>
        /\ ops.split.dtype = "real" /\ ops.split.rank = args.x.rank + 1 /\ len(ops.split) = 2
        /\ getitem(ops.split, 0) = real(args.x)
        /\ getitem(ops.split, 1) =
              (IF is_complex(args.x) THEN imag(args.x) ELSE zeros_like(args.x))
        /\ Values(signal) = Values(args.x)
        /\ ~is_complex(signal) <=> \A k \in DOMAIN args.x.data : Values(args.x)[k][2] = 0

C13_Witness ==
    /\ pc = "rt_done"
    /\ args.x = Tensor("complex", 1, << <<1, 0>>, <<-1, 2>> >>)
    /\ signal = args.x
    /\ ops.split = Tensor("real", 2, << <<1, -1>>, <<0, 2>> >>)

---------------------------------------------------------------------------
(* Claims about AbstractModel, checked under SpecModel.                    *)

Forwarded == pc \in {"call_jacobian", "call_run_jacobian", "call_return", "call_done"}

(* C16: for every batch of B lanes and every chunk_size >= 1, the forward  *)
(* callable, which maps the engine over the batch in chunks of at most     *)
(* chunk_size lanes, returns the per-lane outputs of the engine applied    *)
(* to the whole batch at once, in the same lane order.                     *)
C16_ChunkingKeepsOutputs ==
    Forwarded =>
        LET whole == broadcast_tensors(args.inputs)
        IN  /\ len(ops.output) = len(whole[1])
            /\ \A l \in 1 .. len(whole[1]) :
                  getitem(ops.output, l - 1) = engine(args.fn, Lane(whole, l))

C16_Witness ==
    /\ pc = "call_return" /\ len(args.inputs[1]) = MaxBatch /\ args.chunk_size = MaxBatch - 1
    /\ len(args.inputs[2]) = MaxBatch
    /\ len(ops.output) = MaxBatch
    /\ getitem(ops.output, 0) # getitem(ops.output, MaxBatch - 1)

---------------------------------------------------------------------------
(* Claims about BaseSimulator, checked under SpecSim.                      *)

Given(names) == { name \in names : args[name] # None }
Incomplete(names) == Given(names) # {} /\ Given(names) # names

C17_NoNegativeDecayRate ==
    (pc \in {"sim_chemshift", "sim_initialized"} /\ args.T2star # None /\ ops.model # "None") =>
        /\ RLeq(RZero, ops.df[1][1])
        /\ RLeq(ops.T2[Len(ops.T2)], args.T2star[1]) => ops.df[1][1] = RZero

---------------------------------------------------------------------------
(* Claims about mprage(), checked under SpecMprage.                        *)

(* C18: when the caller passes no nlocs, the simulator is given 15         *)
(* locations for every slice-selective acquisition (sliceprof truthy,      *)
(* sliceprof = True included) and 1 for a non-selective one; a nlocs       *)
(* passed for a slice-selective acquisition is used, capped by the length  *)
(* of the slice profile.                                                   *)
C18_DefaultLocations ==
    pc \in {"mprage_grad_props", "mprage_simulate"} =>
        IF args.nlocs = None
        THEN ops.nlocs = Some(IF args.sliceprof.truth THEN DefaultLocs ELSE 1)
        ELSE (args.sliceprof.truth /\ args.sliceprof.type # "bool") =>
                 ops.nlocs = Some(IF args.nlocs[1] < args.sliceprof.length
                                  THEN args.nlocs[1] ELSE args.sliceprof.length)

(* C23: B1sqrdTau sets b1rms = sqrt(B1sqrdTau) in the excitation pulse     *)
(* properties rf_props, inv_B1sqrdTau sets b1rms = sqrt(inv_B1sqrdTau) in  *)
(* the inversion pulse properties inv_props, and with both supplied the    *)
(* inversion pulse keeps b1rms = sqrt(inv_B1sqrdTau).                      *)
PropsBuilt == pc \in {"mprage_key_error", "mprage_nlocs", "mprage_grad_props", "mprage_simulate"}
C23_PulseEnergies ==
    PropsBuilt =>
        /\ args.B1sqrdTau # None => ops.rf_props.b1rms = Some(ISqrt(args.B1sqrdTau[1]))
        /\ args.inv_B1sqrdTau # None => ops.inv_props.b1rms = Some(ISqrt(args.inv_B1sqrdTau[1]))

---------------------------------------------------------------------------
(* A further claim about MPRAGEModel._engine, checked under SpecMPRAGE.    *)

(* C19: MPRAGEModel records npre + npost readouts per inversion block,     *)
(* nshots being (npre, npost), so the trajectory it returns holds          *)
(* num_inversions * (npre + npost) samples.                                *)
C19_ReadoutsPerBlock ==
    pc = "mp_done" =>
        Len(signal) = args.num_inversions * (args.nshots[1] + args.nshots[2])

---------------------------------------------------------------------------
(* Claims about broadcast_arguments, checked under SpecBroadcast.          *)

(* The common shape of the tensors of a call, and an argument at it.       *)
CommonSize ==
    IF \/ \E n \in DOMAIN args.args :
              isinstance_Tensor(args.args[n]) /\ len(args.args[n]) > 1
       \/ \E key \in DOMAIN args.kwargs :
              isinstance_Tensor(args.kwargs[key]) /\ len(args.kwargs[key]) > 1
    THEN MaxBatch ELSE 1
Expanded(x) ==
    IF isinstance_Tensor(x)
    THEN Tensor(x.dtype, 1, [l \in 1 .. CommonSize |-> IF len(x) = 1 THEN x.data[1] ELSE x.data[l]])
    ELSE x

(* C20: broadcast_arguments returns the arguments with every tensor        *)
(* replaced, at its own position or key, by the broadcast of that same     *)
(* argument, all tensors at one common shape, and every other argument     *)
(* unchanged, for any interleaving of tensor and non-tensor positional     *)
(* arguments.                                                              *)
C20_BroadcastInPlace ==
    pc \in {"bc_done", "bc_attribute_error", "bc_type_error"} =>
        /\ pc = "bc_done"
        /\ signal.args = [n \in DOMAIN args.args |-> Expanded(args.args[n])]
        /\ signal.kwargs = [key \in DOMAIN args.kwargs |-> Expanded(args.kwargs[key])]

---------------------------------------------------------------------------
(* A claim about MPRAGEModel.set_sequence, checked under SpecSetSeq.       *)

SetSeqEnded == pc \in {"setseq_done", "setseq_type_error", "setseq_value_error"}

(* C24: set_sequence ends in the ValueError "TRmprage must be provided for *)
(* multiple inversions" whenever TRmprage is None and num_inversions > 1,  *)
(* and completes without any error when TRmprage is None and               *)
(* num_inversions = 1.                                                     *)
C24_MissingTRmprage ==
    (SetSeqEnded /\ args.TRmprage = None) =>
        pc = IF args.num_inversions > 1 THEN "setseq_value_error" ELSE "setseq_done"

---------------------------------------------------------------------------
(* A claim about BaseSimulator._initialize_differentiation, checked under  *)
(* SpecDiff.                                                               *)

(* The attributes a request names.                                         *)
Named(diff) == { diff.value[k] : k \in DOMAIN diff.value }

(* C28: _initialize_differentiation enables gradient tracking on exactly   *)
(* the attributes named in diff and on no other attribute, both when diff  *)
(* is a tuple of names and when it is a single string such as 'T1bm',      *)
(* 'T2star' or 'B1phase'.                                                  *)
C28_ExactlyTheNamed ==
    pc = "diff_done" => ops.requires_grad = Named(args.diff)

---------------------------------------------------------------------------
(* A claim about the callable of AbstractModel.forward, checked under      *)
(* SpecModel.                                                              *)

Shapes(tensors) == [k \in DOMAIN tensors |-> len(tensors[k])]

(* C30: the callable forward returns evaluates the engine on the values    *)
(* captured when forward was called: inputs passed at the invocation are   *)
(* appended after the captured ones and never bound to a parameter, so two *)
(* invocations that differ only in those inputs, of equal shape, give the  *)
(* same output, the output of the engine on the captured values.           *)
C30_CapturedInputsDecide ==
    pc = "forward_done" =>
        /\ Shapes(ops.inputs[1]) = Shapes(ops.inputs[2]) => ops.outputs[1] = ops.outputs[2]
        /\ \A n \in 1 .. 2 :
              ops.outputs[n] = vmapped_engine(args.fn, args.chunk_size, ops.forward_fn)

C30_Witness ==
    /\ pc = "forward_done"
    /\ len(args.inputs[1]) = MaxBatch /\ args.chunk_size = 2
    /\ Len(ops.inputs[1]) = Len(ARGS) /\ Len(ops.inputs[2]) = 1
    /\ len(ops.inputs[2][1]) = MaxBatch
    /\ ops.inputs[1][1] # ops.forward_fn[1]
    /\ ops.outputs[1] = ops.outputs[2]

====
